---- MODULE Spec2Model ----
(***************************************************************************)
(* s3_largecopy: adaptive server-side multipart copy between two buckets.  *)
(*                                                                         *)
(* The module holds four specifications over disjoint variable groups:     *)
(*   SpecPlan   the planning arithmetic of copy_file (auto.rs planner,     *)
(*              clamp, probe retune, part count), on inputs of any size;   *)
(*   SpecAdapt  adapt_concurrency applied window after window;             *)
(*   Spec       copy_file as a state machine over a model of the store;    *)
(*   SpecFn     the pure functions (adapt_concurrency, build_auto_plan,    *)
(*              the verifier's decision) applied to bounded inputs.        *)
(*                                                                         *)
(* Byte quantities are counted in units of UNIT = 512 KiB, the largest     *)
(* unit in which every part size the planner can produce is integral       *)
(* (table values and floors are MiB multiples, the probe halves once).     *)
(* The code's integer arithmetic is reproduced on these units.             *)
(***************************************************************************)
EXTENDS Integers, Sequences, FiniteSets, TLC

VARIABLES pl
VARIABLES ad
VARIABLES fn
VARIABLES cfg, src, dest, dest0, upload, calls, pc, lc, tasks, progress, result

planVars == <<pl>>
adaptVars == <<ad>>
fnVars == <<fn>>
lifeVars == <<cfg, src, dest, dest0, upload, calls, pc, lc, tasks, progress, result>>
vars == <<planVars, adaptVars, fnVars, lifeVars>>

\* the copy_file machine at rest, for the specifications that do not run it
LifeIdle ==
    /\ cfg = "idle" /\ src = "idle" /\ dest = "idle" /\ dest0 = "idle"
    /\ upload = "idle" /\ calls = "idle" /\ pc = "idle" /\ lc = "idle"
    /\ tasks = <<>> /\ progress = "idle" /\ result = "idle"

----------------------------------------------------------------------------
(* Units and provider limits (auto.rs:45-48)                               *)

UNIT == 512 * 1024
MIB == (1024 * 1024) \div UNIT
GIB == 1024 * MIB
TIB == 1024 * GIB
S3_MIN_PART_SIZE == 5 * MIB
S3_MAX_PART_SIZE == 5 * GIB
S3_MAX_PARTS == 10000
TUNE_MAX_PARTS == 9500

Max(a, b) == IF a >= b THEN a ELSE b
Min(a, b) == IF a <= b THEN a ELSE b
\* (a + b - 1) / b on non-negative i64
CeilDiv(a, b) == (a + b - 1) \div b
\* usize::saturating_sub
SaturatingSub(a, b) == IF a >= b THEN a - b ELSE 0

Profiles == {"Aggressive", "Balanced", "Conservative", "CostEfficient"}

----------------------------------------------------------------------------
(* auto.rs: pure planning functions                                        *)

select_initial_part_size(file_size_bytes, profile) ==
    LET hundred_gb == 100 * GIB
        one_tb == 1024 * GIB
        ten_tb == 10 * 1024 * GIB
    IN CASE profile = "Aggressive" ->
              IF file_size_bytes < hundred_gb THEN 64 * MIB
              ELSE IF file_size_bytes < one_tb THEN 128 * MIB
              ELSE IF file_size_bytes < ten_tb THEN 256 * MIB
              ELSE 512 * MIB
         [] profile = "Balanced" ->
              IF file_size_bytes < hundred_gb THEN 128 * MIB
              ELSE IF file_size_bytes < one_tb THEN 256 * MIB
              ELSE IF file_size_bytes < ten_tb THEN 512 * MIB
              ELSE 1024 * MIB
         [] profile = "Conservative" ->
              IF file_size_bytes < hundred_gb THEN 256 * MIB
              ELSE IF file_size_bytes < one_tb THEN 512 * MIB
              ELSE 1024 * MIB
         [] profile = "CostEfficient" ->
              IF file_size_bytes < hundred_gb THEN 1024 * MIB
              ELSE IF file_size_bytes < one_tb THEN 2 * GIB
              ELSE IF file_size_bytes < ten_tb THEN 3 * GIB
              ELSE 4 * GIB

\* A clamp that caps with the minimum-part constant instead of the maximum.
clamp_part_size_wrong_cap(file_size_bytes, desired_part_size, max_parts) ==
    IF file_size_bytes <= 0 THEN desired_part_size
    ELSE LET desired == Max(desired_part_size, S3_MIN_PART_SIZE)
             required_size == Max(CeilDiv(file_size_bytes, max_parts), S3_MIN_PART_SIZE)
             required_size_mib == CeilDiv(required_size, MIB) * MIB
         IN Min(Max(desired, required_size_mib), S3_MIN_PART_SIZE)

clamp_part_size_for_limit(file_size_bytes, desired_part_size, max_parts) ==
    IF file_size_bytes <= 0 THEN desired_part_size
    ELSE LET min_size == S3_MIN_PART_SIZE
             desired == Max(desired_part_size, min_size)
             required_size == Max(CeilDiv(file_size_bytes, max_parts), min_size)
             required_size_mib == CeilDiv(required_size, MIB) * MIB
         IN Min(Max(desired, required_size_mib), S3_MAX_PART_SIZE)

\* A retune that never halves the part size.
tune_part_size_never_halves(profile, remaining_bytes, current_part_size, measured_mib_s) ==
    IF remaining_bytes <= 0 THEN current_part_size
    ELSE LET tuned ==
                 IF measured_mib_s >= 1200
                 THEN Min(current_part_size * 2, 1024 * MIB)
                 ELSE IF profile = "CostEfficient" /\ measured_mib_s <= 120
                 THEN Max(current_part_size, 1024 * MIB)
                 ELSE current_part_size
         IN clamp_part_size_for_limit(remaining_bytes, tuned, TUNE_MAX_PARTS)

\* measured_mib_s is the probe's average rate in MiB/s
tune_part_size_from_probe(profile, remaining_bytes, current_part_size, measured_mib_s) ==
    IF remaining_bytes <= 0 THEN current_part_size
    ELSE LET tuned ==
                 IF measured_mib_s >= 1200
                 THEN Min(current_part_size * 2, 1024 * MIB)
                 ELSE IF profile = "CostEfficient" /\ measured_mib_s <= 120
                 THEN Max(current_part_size, 1024 * MIB)
                 ELSE IF measured_mib_s <= 120
                 THEN Max(current_part_size \div 2, 64 * MIB)
                 ELSE current_part_size
         IN clamp_part_size_for_limit(remaining_bytes, tuned, TUNE_MAX_PARTS)

target_max_parts(profile, same_region) ==
    CASE profile = "Aggressive" /\ same_region -> 3500
      [] profile = "Aggressive" /\ ~same_region -> 2800
      [] profile = "Balanced" /\ same_region -> 2200
      [] profile = "Balanced" /\ ~same_region -> 1500
      [] profile = "Conservative" /\ same_region -> 1200
      [] profile = "Conservative" /\ ~same_region -> 800
      [] profile = "CostEfficient" /\ same_region -> 500
      [] profile = "CostEfficient" /\ ~same_region -> 350

optimize_part_size_for_cost(file_size_bytes, candidate_part_size, profile, same_region) ==
    IF file_size_bytes <= 0 THEN candidate_part_size
    ELSE LET tmp == target_max_parts(profile, same_region)
             cost_floor == Min(Max(CeilDiv(file_size_bytes, tmp), S3_MIN_PART_SIZE),
                               S3_MAX_PART_SIZE)
             cost_floor_mib == CeilDiv(cost_floor, MIB) * MIB
         IN Min(Max(candidate_part_size, cost_floor_mib), S3_MAX_PART_SIZE)

\* A step of zero.
adapt_step_none(profile) == 0

adapt_step(profile) ==
    CASE profile = "Aggressive" -> 8
      [] profile = "Balanced" -> 4
      [] profile = "Conservative" -> 2
      [] profile = "CostEfficient" -> 1

\* An adapter that does not look at had_retryable_pressure.
adapt_concurrency_ignores_pressure(profile, current, min_concurrency, max_concurrency, metrics) ==
    LET step == adapt_step(profile)
    IN IF metrics.total_part_seconds < 8 * metrics.parts /\ metrics.throughput_mib_s > 0
       THEN Min(current + step, max_concurrency)
       ELSE IF metrics.total_part_seconds > 25 * metrics.parts
       THEN Max(SaturatingSub(current, step), min_concurrency)
       ELSE current

\* An adapter that steps down without a floor.
adapt_concurrency_no_floor(profile, current, min_concurrency, max_concurrency, metrics) ==
    LET step == adapt_step(profile)
    IN IF metrics.had_retryable_pressure
       THEN SaturatingSub(current, step)
       ELSE IF metrics.total_part_seconds < 8 * metrics.parts /\ metrics.throughput_mib_s > 0
       THEN Min(current + step, max_concurrency)
       ELSE IF metrics.total_part_seconds > 25 * metrics.parts
       THEN SaturatingSub(current, step)
       ELSE current

\* WindowMetrics: avg_part_seconds is the quotient total_part_seconds / parts,
\* kept as its two terms and compared exactly by cross-multiplication.
adapt_concurrency(profile, current, min_concurrency, max_concurrency, metrics) ==
    LET step == adapt_step(profile)
    IN IF metrics.had_retryable_pressure
       THEN Max(SaturatingSub(current, step), min_concurrency)
       ELSE IF metrics.total_part_seconds < 8 * metrics.parts /\ metrics.throughput_mib_s > 0
       THEN Min(current + step, max_concurrency)
       ELSE IF metrics.total_part_seconds > 25 * metrics.parts
       THEN Max(SaturatingSub(current, step), min_concurrency)
       ELSE current

\* A threshold that takes exactly 5 GiB as instant.
is_instant_copy_inclusive(auto, file_size_bytes) == auto /\ file_size_bytes <= 5 * GIB

is_instant_copy(auto, file_size_bytes) == auto /\ file_size_bytes < 5 * GIB

recommended_initial_concurrency(profile, same_region) ==
    CASE profile = "Aggressive" /\ same_region -> 48
      [] profile = "Aggressive" /\ ~same_region -> 28
      [] profile = "Balanced" /\ same_region -> 24
      [] profile = "Balanced" /\ ~same_region -> 16
      [] profile = "Conservative" /\ same_region -> 12
      [] profile = "Conservative" /\ ~same_region -> 8
      [] profile = "CostEfficient" /\ same_region -> 8
      [] profile = "CostEfficient" /\ ~same_region -> 6

recommended_max_concurrency(profile, same_region) ==
    CASE profile = "Aggressive" /\ same_region -> 96
      [] profile = "Aggressive" /\ ~same_region -> 64
      [] profile = "Balanced" /\ same_region -> 64
      [] profile = "Balanced" /\ ~same_region -> 40
      [] profile = "Conservative" /\ same_region -> 32
      [] profile = "Conservative" /\ ~same_region -> 20
      [] profile = "CostEfficient" /\ same_region -> 16
      [] profile = "CostEfficient" /\ ~same_region -> 12

probe_part_count(profile) ==
    CASE profile = "Aggressive" -> 5
      [] profile = "Balanced" -> 4
      [] profile = "Conservative" -> 3
      [] profile = "CostEfficient" -> 2

\* A plan whose concurrency ignores the cap.
build_auto_plan_uncapped(profile, file_size_bytes, same_region, concurrency_cap) ==
    LET region_start == recommended_initial_concurrency(profile, same_region)
        region_max == recommended_max_concurrency(profile, same_region)
    IN [initial_part_size |->
            optimize_part_size_for_cost(file_size_bytes,
                                        select_initial_part_size(file_size_bytes, profile),
                                        profile, same_region),
        initial_concurrency |-> region_start,
        max_concurrency |-> region_max,
        probe_parts |-> probe_part_count(profile)]

\* A plan whose CostEfficient profile keeps the smallest part size.
build_auto_plan_small_cost_parts(profile, file_size_bytes, same_region, concurrency_cap) ==
    [initial_part_size |->
         IF profile = "CostEfficient" THEN S3_MIN_PART_SIZE
         ELSE optimize_part_size_for_cost(
                  file_size_bytes, select_initial_part_size(file_size_bytes, profile),
                  profile, same_region),
     initial_concurrency |->
         Max(Min(recommended_initial_concurrency(profile, same_region),
                 Max(Min(recommended_max_concurrency(profile, same_region),
                         Max(concurrency_cap, 1)), 1)), 1),
     max_concurrency |->
         Max(Min(recommended_max_concurrency(profile, same_region),
                 Max(concurrency_cap, 1)), 1),
     probe_parts |-> probe_part_count(profile)]

build_auto_plan(profile, file_size_bytes, same_region, concurrency_cap) ==
    LET base_part_size == select_initial_part_size(file_size_bytes, profile)
        initial_part_size ==
            optimize_part_size_for_cost(file_size_bytes, base_part_size, profile, same_region)
        region_start == recommended_initial_concurrency(profile, same_region)
        region_max == recommended_max_concurrency(profile, same_region)
        hard_cap == Max(concurrency_cap, 1)
        max_concurrency == Max(Min(region_max, hard_cap), 1)
        initial_concurrency == Max(Min(region_start, max_concurrency), 1)
    IN [initial_part_size |-> initial_part_size,
        initial_concurrency |-> initial_concurrency,
        max_concurrency |-> max_concurrency,
        probe_parts |-> probe_part_count(profile)]

----------------------------------------------------------------------------
(* app.rs copy_file: the planning arithmetic                               *)

\* The starting plan without the clamp of line 1041.
InitialPlanUnclamped(auto, profile, concurrency, cfg_part_size, content_length, same_region) ==
    LET auto_plan == build_auto_plan(profile, content_length, same_region, concurrency)
    IN [part_size |-> IF auto THEN auto_plan.initial_part_size ELSE cfg_part_size,
        target_concurrency |->
            IF auto THEN auto_plan.initial_concurrency ELSE Max(concurrency, 1),
        max_auto_concurrency |->
            IF auto THEN auto_plan.max_concurrency ELSE Max(concurrency, 1),
        probe_parts |-> IF auto THEN auto_plan.probe_parts ELSE 0,
        same_region_for_auto |-> IF auto THEN same_region ELSE FALSE]

\* lines 998-1041: starting part size, concurrency and probe length
InitialPlan(auto, profile, concurrency, cfg_part_size, content_length, same_region) ==
    LET auto_plan == build_auto_plan(profile, content_length, same_region, concurrency)
        part_size == IF auto THEN auto_plan.initial_part_size ELSE cfg_part_size
    IN [part_size |-> clamp_part_size_for_limit(content_length, part_size, S3_MAX_PARTS),
        target_concurrency |->
            IF auto THEN auto_plan.initial_concurrency ELSE Max(concurrency, 1),
        max_auto_concurrency |->
            IF auto THEN auto_plan.max_concurrency ELSE Max(concurrency, 1),
        probe_parts |-> IF auto THEN auto_plan.probe_parts ELSE 0,
        same_region_for_auto |-> IF auto THEN same_region ELSE FALSE]

\* lines 1065-1068
MaxProbe(probe_parts, content_length, part_size) ==
    Min(probe_parts, CeilDiv(content_length, part_size))

\* lines 1095-1115: part size for the bytes left after the probe
PostProbePartSize(profile, same_region_for_auto, content_length, next_start_byte, next_part_number, part_size, avg_probe_mib_s) ==
    LET remaining == content_length - next_start_byte
    IN IF remaining > 0
       THEN LET tuned == tune_part_size_from_probe(profile, remaining, part_size,
                                                   avg_probe_mib_s)
                cost_optimized == optimize_part_size_for_cost(remaining, tuned, profile,
                                                              same_region_for_auto)
                remaining_slots == Max(S3_MAX_PARTS - (next_part_number - 1), 1)
            IN clamp_part_size_for_limit(remaining, cost_optimized, remaining_slots)
       ELSE part_size

\* An end byte that is not held back at the end of the object.
EndByteUnclamped(next_start_byte, part_size, content_length) ==
    next_start_byte + part_size - 1

\* lines 1078, 1168: end_byte of the part starting at next_start_byte
EndByte(next_start_byte, part_size, content_length) ==
    Min(next_start_byte + part_size, content_length) - 1

\* lines 1127-1132
RemainingParts(content_length, next_start_byte, part_size) ==
    LET remaining_bytes == content_length - next_start_byte
    IN IF remaining_bytes > 0 THEN CeilDiv(remaining_bytes, part_size) ELSE 0

----------------------------------------------------------------------------
(* SpecPlan: the planner applied to inputs of every magnitude              *)

SizeSlack == 1
PlanThresholds == {5 * MIB, 64 * MIB, 5 * GIB, 100 * GIB, TIB, 10 * TIB,
                   S3_MAX_PARTS * S3_MAX_PART_SIZE}
PlanSizes == {1, 129 * MIB, 20 * TIB, 60000 * GIB}
             \cup {t + d : t \in PlanThresholds, d \in (0 - SizeSlack)..SizeSlack}
PlanCaps == {1, 4, 1000}
PlanPartSizes == {5 * MIB, 256 * MIB, 5120 * MIB}
\* average probe rates in MiB/s, on both sides of the 120 and 1200 thresholds
PlanRates == {60, 120, 121, 1199, 1200}
\* the byte ranges are listed for plans of at most this many parts
MaxListedParts == 100

PlanInputs ==
    [auto : {TRUE}, profile : Profiles, same_region : BOOLEAN, cap : PlanCaps,
     cfg_part_size : {256 * MIB}, size : PlanSizes]
    \cup
    [auto : {FALSE}, profile : {"Balanced"}, same_region : {FALSE}, cap : PlanCaps,
     cfg_part_size : PlanPartSizes, size : PlanSizes]

PlanInit ==
    /\ \E in \in PlanInputs :
          pl = [pc |-> "input", in |-> in, part_size |-> 0, first_part_size |-> 0,
                target_concurrency |-> 0, max_auto_concurrency |-> 0, probe_parts |-> 0,
                probe_done |-> 0, next_start_byte |-> 0, avg_probe_mib_s |-> 0,
                num_parts |-> 0, ranges |-> <<>>]
    /\ ad = [pc |-> "idle"]
    /\ fn = [op |-> "idle"]
    /\ LifeIdle

\* lines 998-1041
PlanStart ==
    /\ pl.pc = "input"
    /\ LET p == InitialPlan(pl.in.auto, pl.in.profile, pl.in.cap, pl.in.cfg_part_size,
                            pl.in.size, pl.in.same_region)
       IN pl' = [pl EXCEPT !.pc = "planned",
                           !.part_size = p.part_size,
                           !.first_part_size = p.part_size,
                           !.target_concurrency = p.target_concurrency,
                           !.max_auto_concurrency = p.max_auto_concurrency,
                           !.probe_parts = p.probe_parts]
    /\ UNCHANGED <<adaptVars, fnVars, lifeVars>>

\* lines 1061-1091 with every probe part succeeding: max_probe parts of
\* part_size bytes (the last one shorter when the object ends inside the probe)
PlanProbe ==
    /\ pl.pc = "planned"
    /\ pl.in.auto /\ pl.probe_parts > 0
    /\ \E rate \in PlanRates :
          LET max_probe == MaxProbe(pl.probe_parts, pl.in.size, pl.part_size)
          IN pl' = [pl EXCEPT !.pc = "probed",
                              !.probe_done = max_probe,
                              !.next_start_byte = Min(max_probe * pl.part_size, pl.in.size),
                              !.avg_probe_mib_s = rate,
                              !.ranges =
                                  [i \in 1..max_probe |->
                                      [part_number |-> i,
                                       start_byte |-> (i - 1) * pl.part_size,
                                       end_byte |-> EndByte((i - 1) * pl.part_size,
                                                            pl.part_size, pl.in.size)]]]
    /\ UNCHANGED <<adaptVars, fnVars, lifeVars>>

\* line 1061: manual mode runs no probe
PlanNoProbe ==
    /\ pl.pc = "planned"
    /\ ~(pl.in.auto /\ pl.probe_parts > 0)
    /\ pl' = [pl EXCEPT !.pc = "tuned"]
    /\ UNCHANGED <<adaptVars, fnVars, lifeVars>>

\* lines 1093-1115
PlanRetune ==
    /\ pl.pc = "probed"
    /\ pl' = [pl EXCEPT !.pc = "tuned",
                        !.part_size =
                            IF pl.probe_done > 0
                            THEN PostProbePartSize(pl.in.profile, pl.in.same_region,
                                                   pl.in.size, pl.next_start_byte,
                                                   pl.probe_done + 1, pl.part_size,
                                                   pl.avg_probe_mib_s)
                            ELSE pl.part_size]
    /\ UNCHANGED <<adaptVars, fnVars, lifeVars>>

\* lines 1127-1133
PlanCount ==
    /\ pl.pc = "tuned"
    /\ pl' = [pl EXCEPT !.pc = "counted",
                        !.num_parts = pl.probe_done
                                      + RemainingParts(pl.in.size, pl.next_start_byte,
                                                       pl.part_size)]
    /\ UNCHANGED <<adaptVars, fnVars, lifeVars>>

\* lines 1162-1174: one pass of the window loop builds a batch of at most
\* target_concurrency parts, each starting one byte after its predecessor
PlanWindow ==
    /\ pl.pc \in {"counted", "windows"}
    /\ pl.next_start_byte < pl.in.size
    /\ pl.num_parts <= MaxListedParts
    /\ LET n == Min(pl.target_concurrency,
                    CeilDiv(pl.in.size - pl.next_start_byte, pl.part_size))
           start(i) == pl.next_start_byte + (i - 1) * pl.part_size
           end(i) == EndByte(start(i), pl.part_size, pl.in.size)
       IN pl' = [pl EXCEPT !.pc = "windows",
                           !.next_start_byte = end(n) + 1,
                           !.ranges =
                               @ \o [i \in 1..n |->
                                       [part_number |-> Len(pl.ranges) + i,
                                        start_byte |-> start(i),
                                        end_byte |-> end(i)]]]
    /\ UNCHANGED <<adaptVars, fnVars, lifeVars>>

PlanNext ==
    PlanStart \/ PlanProbe \/ PlanNoProbe \/ PlanRetune \/ PlanCount \/ PlanWindow

SpecPlan == PlanInit /\ [][PlanNext]_vars

\* C6 as stated: for every size > 0, profile, same_region and cap, the auto
\* plan's part size after cost floor and clamp gives at most 10 000 parts.
C6_PartCountAnySize ==
    (pl.pc # "input" /\ pl.in.auto /\ pl.in.size > 0)
        => CeilDiv(pl.in.size, pl.first_part_size) <= S3_MAX_PARTS

\* C6 amended: the bound holds for every size in 1 .. 10 000 x 5 GiB, the
\* largest object 10 000 parts of the maximum part size can hold.
C6_PartCountBound ==
    (pl.pc # "input" /\ pl.in.auto /\ pl.in.size > 0
        /\ pl.in.size <= S3_MAX_PARTS * S3_MAX_PART_SIZE)
        => CeilDiv(pl.in.size, pl.first_part_size) <= S3_MAX_PARTS

C6_Witness ==
    /\ pl.pc = "planned" /\ pl.in.auto
    /\ pl.in.size = S3_MAX_PARTS * S3_MAX_PART_SIZE
    /\ CeilDiv(pl.in.size, pl.first_part_size) = S3_MAX_PARTS

\* Bytes of the last part of the run, as the dispatch loops compute them
\* (app.rs:1078-1080, 1168-1170): what is left after all full parts.
PlanLastPartBytes ==
    IF pl.in.size - pl.next_start_byte > 0
    THEN (pl.in.size - pl.next_start_byte)
         - (RemainingParts(pl.in.size, pl.next_start_byte, pl.part_size) - 1) * pl.part_size
    ELSE pl.in.size - (pl.probe_done - 1) * pl.first_part_size

\* C7: for 0 < size <= 10 000 x 5 GiB, manual or auto, every dispatched part
\* is at most 5 GiB, every part but the last at least 5 MiB (probe parts have
\* first_part_size bytes, window parts part_size bytes, only the run's last
\* part is shorter), and the run dispatches at most 10 000 parts.
C7_PartLimits ==
    (pl.pc = "counted" /\ pl.in.size > 0
        /\ pl.in.size <= S3_MAX_PARTS * S3_MAX_PART_SIZE)
        => /\ S3_MIN_PART_SIZE <= pl.first_part_size
           /\ pl.first_part_size <= S3_MAX_PART_SIZE
           /\ S3_MIN_PART_SIZE <= pl.part_size
           /\ pl.part_size <= S3_MAX_PART_SIZE
           /\ 1 <= PlanLastPartBytes
           /\ PlanLastPartBytes <= Max(pl.part_size, pl.first_part_size)
           /\ (pl.probe_done > 0 /\ pl.in.size - pl.next_start_byte > 0
                  => pl.next_start_byte = pl.probe_done * pl.first_part_size)
           /\ 1 <= pl.num_parts
           /\ pl.num_parts <= S3_MAX_PARTS

\* an auto run on an object one unit below the 10 000 x 5 GiB ceiling: five
\* probe parts, a retune, and all 10 000 part slots used with a short last part
C7_Witness ==
    /\ pl.pc = "counted" /\ pl.in.auto
    /\ pl.in.size = S3_MAX_PARTS * S3_MAX_PART_SIZE - 1
    /\ pl.probe_done = 5
    /\ pl.num_parts = S3_MAX_PARTS
    /\ PlanLastPartBytes < pl.part_size

\* the probe has run and bytes are left for the window loop
Retuned ==
    /\ pl.pc \in {"tuned", "counted"}
    /\ pl.probe_done > 0
    /\ pl.in.size - pl.next_start_byte > 0

\* the part size the rule of the probe gives, before floor and clamp
ProbeRule(profile, current, avg_mib_s) ==
    IF avg_mib_s >= 1200 THEN Min(2 * current, GIB)
    ELSE IF profile = "CostEfficient" /\ avg_mib_s <= 120 THEN Max(current, GIB)
    ELSE IF avg_mib_s <= 120 THEN Max(current \div 2, 64 * MIB)
    ELSE current

\* C36: after a probe with bytes remaining, the part size of the remaining
\* parts is the rule of the probe (double up to 1 GiB from 1200 MiB/s; for
\* CostEfficient at most 120 MiB/s at least 1 GiB; otherwise at most 120 MiB/s
\* half, at least 64 MiB; else unchanged), then the cost floor and the clamp
\* against the remaining bytes and the 10 000 - scheduled part slots.
C36_RetuneFormula ==
    Retuned =>
        LET remaining == pl.in.size - pl.next_start_byte
            slots == Max(S3_MAX_PARTS - pl.probe_done, 1)
            ruled == ProbeRule(pl.in.profile, pl.first_part_size, pl.avg_probe_mib_s)
        IN pl.part_size =
               clamp_part_size_for_limit(
                   remaining,
                   optimize_part_size_for_cost(remaining, ruled, pl.in.profile,
                                               pl.in.same_region),
                   slots)

C36_Witness ==
    /\ Retuned
    /\ pl.in.profile = "Balanced" /\ pl.in.size = 5 * GIB
    /\ pl.avg_probe_mib_s = 60
    /\ pl.first_part_size = 128 * MIB
    /\ pl.part_size = 64 * MIB

\* C37: a probe that measures at least 1200 MiB/s never makes the part size
\* of the remaining parts smaller than the part size used before the probe,
\* whatever the profile and the object size, plans above 1 GiB included.
C37_FastProbeNeverShrinks ==
    (Retuned /\ pl.avg_probe_mib_s >= 1200) => pl.part_size >= pl.first_part_size

\* every part of the plan has been dispatched
PlanDispatched ==
    /\ pl.pc \in {"counted", "windows"}
    /\ pl.next_start_byte >= pl.in.size

\* C38: the byte ranges of the dispatched parts, in part-number order, are
\* contiguous and do not overlap: part 1 starts at byte 0, every later part
\* starts one byte after its predecessor ends, and in a successful run the
\* last part ends at byte size - 1; also when the part size changes after
\* the probe.
C38_RangesContiguous ==
    LET r == pl.ranges
    IN /\ \A i \in 1..Len(r) :
             /\ r[i].part_number = i
             /\ r[i].start_byte <= r[i].end_byte
             /\ r[i].start_byte = IF i = 1 THEN 0 ELSE r[i - 1].end_byte + 1
       /\ PlanDispatched =>
             /\ Len(r) = pl.num_parts
             /\ r[Len(r)].end_byte = pl.in.size - 1

C38_Witness ==
    /\ PlanDispatched
    /\ pl.in.profile = "Balanced" /\ pl.in.size = 5 * GIB + 1
    /\ pl.avg_probe_mib_s = 1200
    /\ pl.probe_done = 4
    /\ Len(pl.ranges) = 23
    /\ pl.ranges[4] = [part_number |-> 4, start_byte |-> 384 * MIB,
                       end_byte |-> 512 * MIB - 1]
    /\ pl.ranges[5] = [part_number |-> 5, start_byte |-> 512 * MIB,
                       end_byte |-> 768 * MIB - 1]
    /\ pl.ranges[23] = [part_number |-> 23, start_byte |-> 5 * GIB, end_byte |-> 5 * GIB]

----------------------------------------------------------------------------
(* SpecAdapt: the engine's adapt call, window after window                 *)
(* (app.rs:1181-1196 with the plan of app.rs:1020-1029)                    *)

MaxAdaptWindows == 3
AdaptCaps == {1, 2, 3, 4, 5, 50, 1000}
AUTO_MIN_CONCURRENCY == 4
\* (total_part_seconds, parts) pairs: averages of 6 s, 8 s, 20 s, 25 s, 30 s
AdaptMetrics ==
    [total_part_seconds : {12, 16, 40, 50, 60}, parts : {2},
     throughput_mib_s : {0, 400}, had_retryable_pressure : {FALSE}]

AdaptInit ==
    /\ \E profile \in Profiles, same_region \in BOOLEAN, cap \in AdaptCaps :
          LET plan == build_auto_plan(profile, 5 * GIB, same_region, cap)
          IN ad = [pc |-> "run", profile |-> profile, cap |-> cap,
                   max_auto_concurrency |-> plan.max_concurrency,
                   target_concurrency |-> plan.initial_concurrency,
                   windows |-> 0]
    /\ pl = [pc |-> "idle"]
    /\ fn = [op |-> "idle"]
    /\ LifeIdle

\* lines 1181-1196
AdaptWindow ==
    /\ ad.pc = "run"
    /\ ad.windows < MaxAdaptWindows
    /\ \E metrics \in AdaptMetrics :
          ad' = [ad EXCEPT !.target_concurrency =
                               adapt_concurrency(ad.profile, ad.target_concurrency,
                                                 AUTO_MIN_CONCURRENCY,
                                                 ad.max_auto_concurrency, metrics),
                           !.windows = ad.windows + 1]
    /\ UNCHANGED <<planVars, fnVars, lifeVars>>

AdaptNext == AdaptWindow

SpecAdapt == AdaptInit /\ [][AdaptNext]_vars

\* C10: after every auto-mode window the value adapt_concurrency returned is
\* within [min, max] = [4, plan.max_concurrency].
C10_AdaptWithinBounds ==
    (ad.pc = "run" /\ ad.windows > 0)
        => /\ AUTO_MIN_CONCURRENCY <= ad.target_concurrency
           /\ ad.target_concurrency <= ad.max_auto_concurrency

----------------------------------------------------------------------------
(* The store as copy_file sees it                                          *)

\* Option<T>: None is the empty sequence, Some(x) the one-element sequence;
\* optional scalars (storage class, header values) use the string "None".
None == <<>>
Some(x) == <<x>>
NoVal == "None"

\* ETags are character sequences; "q" stands for the double-quote character.
RECURSIVE TrimStart(_)
TrimStart(s) == IF s # <<>> /\ Head(s) = "q" THEN TrimStart(Tail(s)) ELSE s
RECURSIVE TrimEnd(_)
TrimEnd(s) == IF s # <<>> /\ s[Len(s)] = "q" THEN TrimEnd(SubSeq(s, 1, Len(s) - 1)) ELSE s
\* str::trim_matches('"')
trim_matches(s) == TrimEnd(TrimStart(s))
\* format!("\"{}\"", s.trim_matches('"'))
StandardizeQuotes(s) == <<"q">> \o trim_matches(s) \o <<"q">>
\* Option<&str>::unwrap_or_default
UnwrapOrDefault(o) == IF o = None THEN <<>> ELSE o[1]

HeaderNames == {"cache_control", "content_disposition", "content_encoding",
                "content_language", "content_type", "website_redirect_location",
                "expires"}
NoHeaders == [h \in HeaderNames |-> NoVal]
\* DateTime::from_str(ex, Format::HttpDate).is_ok()
ParsesAsHttpDate(v) == v # "not-a-date"

\* HeadObject reports no storage class for STANDARD objects
HeadStorageClass(sc) == IF sc = "STANDARD" THEN NoVal ELSE sc

\* ETag the store assigns to an object assembled from parts
MultipartETag == <<"q", "m", "q">>

\* the standard headers a write request carries (app.rs:294-320, 740-767, 916-942)
RequestHeaders(c, source_metadata) ==
    IF c.no_metadata THEN NoHeaders
    ELSE [h \in HeaderNames |->
             IF h = "expires" /\ ~ParsesAsHttpDate(source_metadata.hdr[h])
             THEN NoVal ELSE source_metadata.hdr[h]]

\* the storage class a write request carries (app.rs:346-353, 783-789, 957-963)
RequestStorageClass(c, source_metadata) ==
    IF c.storage_class # NoVal THEN c.storage_class
    ELSE IF ~c.no_storage_class THEN source_metadata.storage_class
    ELSE NoVal

\* the user metadata a write request carries: the source's own entries except
\* "source-etag" (app.rs:323-329), and "source-etag" set to the ETag as passed
RequestSourceEtag(src_etag) == Some(src_etag)

\* initiate_multipart_upload, app.rs:286-370: the request's headers
InitiateRequest(c, src_etag, source_metadata, source_tags) ==
    [source_etag |-> RequestSourceEtag(src_etag),
     hdr |-> RequestHeaders(c, source_metadata),
     tags |-> IF ~c.no_tags /\ source_tags # None /\ source_tags[1] # <<>>
              THEN source_tags[1] ELSE <<>>,
     storage_class |-> RequestStorageClass(c, source_metadata),
     acl |-> c.full_control /\ ~c.no_acl,
     checksum_algorithm |-> c.checksum_algorithm,
     sse |-> c.sse]

\* the object the store publishes for a completed upload: the bytes of the
\* listed parts under the headers recorded at creation
PublishedObject(req, size, etag, sums) ==
    [size |-> size, e_tag |-> Some(etag), source_etag |-> req.source_etag,
     storage_class |-> HeadStorageClass(req.storage_class), hdr |-> req.hdr,
     tags |-> req.tags, sums |-> sums]

NoUpload == [state |-> "None", req |-> None, parts |-> {}]
NoCalls == [head_source |-> 0, head_dest |-> 0, get_tags |-> 0, get_region |-> 0,
            copy_object |-> 0, put_tagging |-> 0, create |-> 0, part |-> 0,
            complete |-> 0, abort |-> 0]
Bump(c, op) == [c EXCEPT ![op] = @ + 1]

\* copy_file's locals before it runs (app.rs:998-1002, 1057-1059)
NoLocals ==
    [content_length |-> 0, source_tags |-> None, pre_source_tags |-> None,
     part_size |-> 0, target_concurrency |-> 0, max_auto_concurrency |-> 0,
     probe_parts |-> 0, same_region_for_auto |-> FALSE, upload_id |-> "",
     completed_parts |-> <<>>, next_part_number |-> 1, next_start_byte |-> 0,
     probe_left |-> 0, probe_done |-> 0, probe_measured_mib_s |-> 0,
     tags_match |-> FALSE, strategy |-> "none", copy_request |-> None,
     num_parts |-> 0, submitted |-> None,
     upload_err |-> "none", abort_err |-> "none", region_err |-> FALSE]

NoProgress == [total_parts |-> 0, copied_bytes |-> 0, completed_parts |-> 0]
ChecksumNames == {"sha256", "sha1", "crc32c", "crc32"}
NoSums == [a \in ChecksumNames |-> NoVal]

----------------------------------------------------------------------------
(* copy_file, app.rs:608-1297: entry, destination precheck, small paths    *)

Return(r) == pc' = "done" /\ result' = r

\* outcomes of one store request: success or a non-recoverable failure
Outcomes == {"ok", "error"}
\* get_object_tagging (app.rs:254-277): NoSuchKey is recovered as None.  It
\* is the only answer for an absent key, and a possible one for a key the
\* HEAD has just found (the tagging request is a later request to the store).
TagOutcomes(object) ==
    IF object = None THEN {"NoSuchKey", "error"} ELSE {"ok", "NoSuchKey", "error"}

\* lines 649-664: size and ETag (or recorded source-etag) identity
DataMatches(dest_metadata, metadata, content_length) ==
    LET dest_size == dest_metadata.size
        dest_etag == UnwrapOrDefault(dest_metadata.e_tag)
        src_etag == UnwrapOrDefault(metadata.e_tag)
        dest_stored_src_etag ==
            IF dest_metadata.source_etag = None THEN <<>>
            ELSE StandardizeQuotes(dest_metadata.source_etag[1])
        standardized_src_etag == StandardizeQuotes(src_etag)
    IN /\ dest_size = content_length
       /\ (dest_etag = src_etag \/ dest_stored_src_etag = standardized_src_etag)

\* line 683
TagsMatch(c, source_tags, dest_tags) == c.no_tags \/ source_tags = dest_tags

\* lines 684-685: the destination's class against the configured class
StorageClassMatch(c, dest_metadata, metadata) ==
    c.no_storage_class \/ dest_metadata.storage_class = c.storage_class

\* lines 688-696
MetadataMatch(c, dest_metadata, metadata) ==
    \/ c.no_metadata
    \/ /\ dest_metadata.hdr["cache_control"] = metadata.hdr["cache_control"]
       /\ dest_metadata.hdr["content_disposition"] = metadata.hdr["content_disposition"]
       /\ dest_metadata.hdr["content_encoding"] = metadata.hdr["content_encoding"]
       /\ dest_metadata.hdr["content_language"] = metadata.hdr["content_language"]
       /\ dest_metadata.hdr["content_type"] = metadata.hdr["content_type"]
       /\ dest_metadata.hdr["website_redirect_location"]
              = metadata.hdr["website_redirect_location"]
       /\ dest_metadata.hdr["expires"] = metadata.hdr["expires"]

\* A choice that sends exactly 5 GiB past Property-Sync.
PrecheckDecisionExclusive(c, content_length, tags_match, storage_class_match, metadata_match, source_tags) ==
    IF tags_match /\ storage_class_match /\ metadata_match THEN "skip"
    ELSE IF content_length < 5 * GIB THEN "prop_sync"
    ELSE IF ~tags_match /\ storage_class_match /\ metadata_match
    THEN (IF source_tags # None THEN "tag_sync" ELSE "copy_tags")
    ELSE "copy_tags"

\* lines 698, 706, 822, 853: which way the precheck goes once the data matches
PrecheckDecision(c, content_length, tags_match, storage_class_match, metadata_match, source_tags) ==
    IF tags_match /\ storage_class_match /\ metadata_match THEN "skip"
    ELSE IF content_length <= 5 * GIB THEN "prop_sync"
    ELSE IF ~tags_match /\ storage_class_match /\ metadata_match
    THEN (IF source_tags # None THEN "tag_sync" ELSE "copy_tags")
    ELSE "copy_tags"

\* the object a successful copy_object leaves at the destination: the source's
\* bytes; headers and user metadata from the request under the REPLACE
\* directive, from the source otherwise; tags from the request only when it
\* carries a tagging (sent with the REPLACE tagging directive)
CopiedObject(req, source) ==
    [size |-> source.size, e_tag |-> source.e_tag,
     source_etag |-> IF req.metadata_directive = "REPLACE"
                     THEN req.source_etag ELSE source.source_etag,
     storage_class |-> HeadStorageClass(req.storage_class),
     hdr |-> IF req.metadata_directive = "REPLACE" THEN req.hdr ELSE source.hdr,
     tags |-> IF req.tagging # None THEN req.tagging[1] ELSE source.tags,
     sums |-> source.sums]

\* lines 713-803: the Property-Sync request
PropertySyncRequest(c, metadata, source_tags, tags_match) ==
    [source_etag |-> RequestSourceEtag(UnwrapOrDefault(metadata.e_tag)),
     hdr |-> RequestHeaders(c, metadata),
     storage_class |-> RequestStorageClass(c, metadata),
     metadata_directive |-> "REPLACE",
     tagging |-> IF ~c.no_tags /\ ~tags_match /\ source_tags # None
                 THEN source_tags ELSE None,
     acl |-> c.full_control /\ ~c.no_acl,
     checksum_algorithm |-> c.checksum_algorithm,
     sse |-> c.sse]

\* lines 888-979: the Instant-Copy request
InstantCopyRequest(c, metadata, source_tags) ==
    [source_etag |-> RequestSourceEtag(UnwrapOrDefault(metadata.e_tag)),
     hdr |-> RequestHeaders(c, metadata),
     storage_class |-> RequestStorageClass(c, metadata),
     metadata_directive |-> "REPLACE",
     tagging |-> IF ~c.no_tags /\ source_tags # None /\ source_tags[1] # <<>>
                 THEN source_tags ELSE None,
     acl |-> c.full_control /\ ~c.no_acl,
     checksum_algorithm |-> c.checksum_algorithm,
     sse |-> c.sse]

\* A precheck that force_copy does not switch off.
SkipsPrecheckNever(force_copy) == FALSE

\* line 639: `if self.force_copy` skips the destination precheck
SkipsPrecheck(force_copy) == force_copy

\* A copy phase that accepts an empty source.
IsEmptySourceNever(content_length) == FALSE

\* line 867: `if content_length == 0`
IsEmptySource(content_length) == content_length = 0

\* A source HEAD that reports an absent object as an empty one.
HeadSourceAbsentIsEmpty ==
    /\ pc = "start"
    /\ calls' = Bump(calls, "head_source")
    /\ \E o \in Outcomes :
          IF o = "error" THEN Return("HeadSourceFailed") /\ UNCHANGED lc
          ELSE IF src = None THEN Return("EmptySource") /\ UNCHANGED lc
          ELSE /\ lc' = [lc EXCEPT !.content_length = src[1].size]
               /\ pc' = "head_dest"
               /\ UNCHANGED result
    /\ UNCHANGED <<cfg, src, dest, dest0, upload, tasks, progress, planVars, adaptVars, fnVars>>

\* lines 626-636: HEAD the source
HeadSource ==
    /\ pc = "start"
    /\ calls' = Bump(calls, "head_source")
    /\ \E o \in Outcomes :
          IF o = "error" THEN Return("HeadSourceFailed") /\ UNCHANGED lc
          ELSE IF src = None THEN Return("SourceNotFound") /\ UNCHANGED lc
          ELSE /\ lc' = [lc EXCEPT !.content_length = src[1].size]
               /\ pc' = "head_dest"
               /\ UNCHANGED result
    /\ UNCHANGED <<cfg, src, dest, dest0, upload, tasks, progress, planVars, adaptVars, fnVars>>

\* lines 639-644: force_copy skips the destination precheck
ForceCopy ==
    /\ pc = "head_dest"
    /\ SkipsPrecheck(cfg.force_copy)
    /\ pc' = "copy_tags"
    /\ UNCHANGED <<cfg, src, dest, dest0, upload, calls, lc, tasks, progress, result,
                   planVars, adaptVars, fnVars>>

\* lines 645-664: HEAD the destination and compare data identity
HeadDest ==
    /\ pc = "head_dest"
    /\ ~SkipsPrecheck(cfg.force_copy)
    /\ calls' = Bump(calls, "head_dest")
    /\ \E o \in Outcomes :
          IF o = "error" THEN Return("HeadDestFailed")
          ELSE /\ pc' = IF dest # None /\ DataMatches(dest[1], src[1], lc.content_length)
                        THEN "pre_tags_src" ELSE "copy_tags"
               /\ UNCHANGED result
    /\ UNCHANGED <<cfg, src, dest, dest0, upload, lc, tasks, progress, planVars, adaptVars, fnVars>>

\* lines 670-675: source tags for the comparison
PreSourceTags ==
    /\ pc = "pre_tags_src"
    /\ IF cfg.no_tags
       THEN /\ lc' = [lc EXCEPT !.pre_source_tags = None]
            /\ pc' = "pre_tags_dst"
            /\ UNCHANGED <<calls, result>>
       ELSE /\ calls' = Bump(calls, "get_tags")
            /\ \E o \in TagOutcomes(src) :
                  IF o = "error" THEN Return("TagFetchFailed") /\ UNCHANGED lc
                  ELSE /\ lc' = [lc EXCEPT !.pre_source_tags =
                                     IF o = "ok" THEN Some(src[1].tags) ELSE None]
                       /\ pc' = "pre_tags_dst"
                       /\ UNCHANGED result
    /\ UNCHANGED <<cfg, src, dest, dest0, upload, tasks, progress, planVars, adaptVars, fnVars>>

\* lines 676-705, 706, 822, 853: destination tags, the three predicates, the choice
PreDestTags ==
    /\ pc = "pre_tags_dst"
    /\ \E o \in (IF cfg.no_tags THEN {"skipped"} ELSE TagOutcomes(dest)) :
          /\ calls' = IF cfg.no_tags THEN calls ELSE Bump(calls, "get_tags")
          /\ IF o = "error" THEN Return("TagFetchFailed") /\ UNCHANGED lc
             ELSE LET dest_tags == IF o = "ok" THEN Some(dest[1].tags) ELSE None
                      tags_match == TagsMatch(cfg, lc.pre_source_tags, dest_tags)
                      d == PrecheckDecision(cfg, lc.content_length, tags_match,
                                            StorageClassMatch(cfg, dest[1], src[1]),
                                            MetadataMatch(cfg, dest[1], src[1]),
                                            lc.pre_source_tags)
                  IN /\ lc' = [lc EXCEPT !.tags_match = tags_match,
                                         !.strategy = IF d = "copy_tags" THEN @ ELSE d]
                     /\ IF d = "skip" THEN Return("ok")
                        ELSE pc' = d /\ UNCHANGED result
    /\ UNCHANGED <<cfg, src, dest, dest0, upload, tasks, progress, planVars, adaptVars, fnVars>>

\* lines 706-821: Property-Sync by one copy_object with REPLACE
PropertySync ==
    /\ pc = "prop_sync"
    /\ LET req == PropertySyncRequest(cfg, src[1], lc.pre_source_tags, lc.tags_match)
       IN IF cfg.dry_run
          THEN Return("ok") /\ UNCHANGED <<calls, dest, lc>>
          ELSE /\ calls' = Bump(calls, "copy_object")
               /\ lc' = [lc EXCEPT !.copy_request = Some(req)]
               /\ \E o \in Outcomes :
                     IF o = "error" THEN Return("CopyObjectFailed") /\ UNCHANGED dest
                     ELSE dest' = Some(CopiedObject(req, src[1])) /\ Return("ok")
    /\ UNCHANGED <<cfg, src, dest0, upload, tasks, progress, planVars, adaptVars, fnVars>>

\* lines 822-852: Tag-Sync by one put_object_tagging
TagSync ==
    /\ pc = "tag_sync"
    /\ IF cfg.dry_run
       THEN Return("ok") /\ UNCHANGED <<calls, dest>>
       ELSE /\ calls' = Bump(calls, "put_tagging")
            /\ \E o \in Outcomes :
                  IF o = "error" THEN Return("PutTaggingFailed") /\ UNCHANGED dest
                  ELSE /\ dest' = Some([dest[1] EXCEPT !.tags = lc.pre_source_tags[1]])
                       /\ Return("ok")
    /\ UNCHANGED <<cfg, src, dest0, upload, lc, tasks, progress, planVars, adaptVars, fnVars>>

\* lines 867-880: empty-source check, source tags for the copy, path choice
FetchSourceTags ==
    /\ pc = "copy_tags"
    /\ IF IsEmptySource(lc.content_length)
       THEN Return("EmptySource") /\ UNCHANGED <<calls, lc>>
       ELSE \E o \in (IF cfg.no_tags THEN {"skipped"} ELSE TagOutcomes(src)) :
              /\ calls' = IF cfg.no_tags THEN calls ELSE Bump(calls, "get_tags")
              /\ IF o = "error" THEN Return("TagFetchFailed") /\ UNCHANGED lc
                 ELSE /\ lc' = [lc EXCEPT !.source_tags =
                                    IF o = "ok" THEN Some(src[1].tags) ELSE None,
                                           !.strategy =
                                    IF is_instant_copy(cfg.auto, lc.content_length)
                                    THEN "instant" ELSE "multipart"]
                      /\ pc' = IF is_instant_copy(cfg.auto, lc.content_length)
                               THEN "instant" ELSE "plan"
                      /\ UNCHANGED result
    /\ UNCHANGED <<cfg, src, dest, dest0, upload, tasks, progress, planVars, adaptVars, fnVars>>

\* lines 880-996: Instant-Copy by one copy_object, then return
InstantCopy ==
    /\ pc = "instant"
    /\ LET req == InstantCopyRequest(cfg, src[1], lc.source_tags)
       IN IF cfg.dry_run
          THEN Return("ok") /\ UNCHANGED <<calls, dest, lc>>
          ELSE /\ calls' = Bump(calls, "copy_object")
               /\ lc' = [lc EXCEPT !.copy_request = Some(req)]
               /\ \E o \in Outcomes :
                     IF o = "error" THEN Return("CopyObjectFailed") /\ UNCHANGED dest
                     ELSE dest' = Some(CopiedObject(req, src[1])) /\ Return("ok")
    /\ UNCHANGED <<cfg, src, dest0, upload, tasks, progress, planVars, adaptVars, fnVars>>

----------------------------------------------------------------------------
(* copy_file, app.rs:998-1229: the multipart lifecycle                     *)

\* probe rates in MiB/s; multiples of 60, so that the average over 1..5
\* probe parts (app.rs:1094) is an integer
ProbeRates == {60, 600, 2400}
\* wall-clock seconds of one window part
PartSeconds == {1, 30}

\* A numbering that advances by two.
NextPartNumberSkips(n) == n + 2

\* lines 1088, 1172: next_part_number += 1
NextPartNumber(n) == n + 1

\* A tracker constructed for no parts.
EnterWindowsNoTotal(l) ==
    [locals |-> [l EXCEPT !.num_parts = Len(l.completed_parts)],
     progress |-> [total_parts |-> 0, copied_bytes |-> 0, completed_parts |-> 0]]

\* lines 1127-1144: part count and the progress tracker for the window loop
EnterWindows(l) ==
    LET remaining_parts == RemainingParts(l.content_length, l.next_start_byte, l.part_size)
    IN [locals |-> [l EXCEPT !.num_parts = Len(l.completed_parts) + remaining_parts],
        progress |-> [total_parts |-> remaining_parts, copied_bytes |-> 0,
                      completed_parts |-> 0]]

\* lines 1093-1115: the retune once the probe loop has ended
AfterProbe(c, l) ==
    IF l.probe_done > 0
    THEN [l EXCEPT !.part_size =
              PostProbePartSize(c.auto_profile, l.same_region_for_auto, l.content_length,
                                l.next_start_byte, l.next_part_number, l.part_size,
                                l.probe_measured_mib_s \div l.probe_done)]
    ELSE l

\* A cleanup that never sends its request.
AbortNeverSent(dry_run) == FALSE

\* abort_multipart_upload, app.rs:474-482: the request is sent unless dry_run
AbortIsSent(dry_run) == ~dry_run
\* A completion that never sends its request.
CompleteNeverSent(dry_run) == FALSE

\* complete_multipart_upload, app.rs:440-448
CompleteIsSent(dry_run) == ~dry_run
\* A part copy that is sent in a dry run as well.
PartCopyAlwaysSent(dry_run) == TRUE

\* upload_part_copy, app.rs:399-406
PartCopyIsSent(dry_run) == ~dry_run

\* A completion that reports failure whatever the store answered.
CompleteAlwaysFailed(outcome) == TRUE

\* app.rs:450-469: complete_multipart_upload fails exactly when the store does
CompleteFailed(outcome) == outcome = "error"

\* A cleanup whose own failure replaces the error of the upload block.
ErrorOfAbortWins(upload_err, abort_err) ==
    IF abort_err # "none" THEN abort_err ELSE upload_err

\* app.rs:1223-1228: the error copy_file returns after the cleanup
ErrorAfterCleanup(upload_err, abort_err) == upload_err

\* app.rs:1206: sort_by part_number (stable: each part goes to its rank)
SortParts(parts) ==
    LET before(j, i) == parts[j] < parts[i] \/ (parts[j] = parts[i] /\ j < i)
        rank(i) == Cardinality({j \in 1..Len(parts) : before(j, i)}) + 1
    IN [p \in 1..Len(parts) |-> parts[CHOOSE i \in 1..Len(parts) : rank(i) = p]]

\* lines 1004-1041: bucket regions (auto only), the plan, the initial clamp
Plan ==
    /\ pc = "plan"
    /\ \E regions \in (IF cfg.auto THEN {"same", "different", "error"} ELSE {"unused"}) :
          LET p == InitialPlan(cfg.auto, cfg.auto_profile, cfg.concurrency, cfg.part_size,
                               lc.content_length, regions = "same")
          IN /\ lc' = [lc EXCEPT !.part_size = p.part_size,
                                 !.target_concurrency = p.target_concurrency,
                                 !.max_auto_concurrency = p.max_auto_concurrency,
                                 !.probe_parts = p.probe_parts,
                                 !.same_region_for_auto = p.same_region_for_auto,
                                 !.region_err = (regions = "error")]
             /\ calls' = IF cfg.auto THEN Bump(Bump(calls, "get_region"), "get_region")
                         ELSE calls
    /\ pc' = "initiate"
    /\ UNCHANGED <<cfg, src, dest, dest0, upload, tasks, progress, result, planVars, adaptVars, fnVars>>

\* lines 1047-1061 and initiate_multipart_upload (280-390); entering the
\* probe loop, or (manual mode) the window loop
Initiate ==
    /\ pc = "initiate"
    /\ \E o \in (IF cfg.dry_run THEN {"dry"} ELSE Outcomes) :
          IF o = "error"
          THEN /\ calls' = Bump(calls, "create")
               /\ Return("CreateFailed")
               /\ UNCHANGED <<upload, lc, progress>>
          ELSE LET l1 == [lc EXCEPT !.upload_id =
                             IF cfg.dry_run THEN "DRY-RUN-UPLOAD-ID" ELSE "upload-1",
                                    !.probe_left =
                                        IF cfg.auto /\ lc.probe_parts > 0
                                        THEN MaxProbe(lc.probe_parts, lc.content_length,
                                                      lc.part_size)
                                        ELSE 0]
                   w == EnterWindows(l1)
               IN /\ calls' = IF cfg.dry_run THEN calls ELSE Bump(calls, "create")
                  /\ upload' = IF cfg.dry_run THEN upload
                               ELSE [state |-> "Open",
                                     req |-> Some(InitiateRequest(
                                                 cfg, UnwrapOrDefault(src[1].e_tag),
                                                 src[1], lc.source_tags)),
                                     parts |-> {}]
                  /\ IF cfg.auto /\ lc.probe_parts > 0
                     THEN lc' = l1 /\ pc' = "probe" /\ UNCHANGED progress
                     ELSE lc' = w.locals /\ progress' = w.progress /\ pc' = "window"
                  /\ UNCHANGED result
    /\ UNCHANGED <<cfg, src, dest, dest0, tasks, planVars, adaptVars, fnVars>>

\* lines 1074-1084: the probe loop issues one upload_part_copy and awaits it
ProbeIssue ==
    /\ pc = "probe"
    /\ lc.probe_left > 0 /\ lc.next_start_byte < lc.content_length
    /\ calls' = IF PartCopyIsSent(cfg.dry_run) THEN Bump(calls, "part") ELSE calls
    /\ pc' = "probe_wait"
    /\ UNCHANGED <<cfg, src, dest, dest0, upload, lc, tasks, progress, result,
                   planVars, adaptVars, fnVars>>

\* lines 1085-1125 (and 1127-1144 when the loop ends): the probe part succeeded
ProbeReturnOk ==
    /\ pc = "probe_wait"
    /\ cfg.dry_run \/ upload.state = "Open"
    /\ \E rate \in ProbeRates :
          LET end_byte == EndByte(lc.next_start_byte, lc.part_size, lc.content_length)
              part_bytes == end_byte - lc.next_start_byte + 1
              l1 == [lc EXCEPT !.probe_measured_mib_s = @ + rate,
                               !.completed_parts = Append(@, lc.next_part_number),
                               !.next_part_number = NextPartNumber(@),
                               !.next_start_byte = end_byte + 1,
                               !.probe_done = @ + 1,
                               !.probe_left = @ - 1]
              more == l1.probe_left > 0 /\ l1.next_start_byte < l1.content_length
              w == EnterWindows(AfterProbe(cfg, l1))
          IN /\ upload' = IF PartCopyIsSent(cfg.dry_run)
                          THEN [upload EXCEPT !.parts = @ \cup
                                   {[part_number |-> lc.next_part_number,
                                     bytes |-> part_bytes]}]
                          ELSE upload
             /\ IF more
                THEN lc' = l1 /\ pc' = "probe" /\ UNCHANGED progress
                ELSE lc' = w.locals /\ progress' = w.progress /\ pc' = "window"
    /\ UNCHANGED <<cfg, src, dest, dest0, calls, tasks, result, planVars, adaptVars, fnVars>>

\* line 1084: a probe part failed; the error leaves the upload block
ProbeReturnFail ==
    /\ pc = "probe_wait"
    /\ PartCopyIsSent(cfg.dry_run)
    /\ lc' = [lc EXCEPT !.upload_err = "PartFailed"]
    /\ pc' = "abort"
    /\ UNCHANGED <<cfg, src, dest, dest0, upload, calls, tasks, progress, result,
                   planVars, adaptVars, fnVars>>

\* lines 1165-1173: the part number of the batch's i-th entry
RECURSIVE PartNumberAfter(_, _)
PartNumberAfter(n, k) == IF k = 0 THEN n ELSE NextPartNumber(PartNumberAfter(n, k - 1))

\* lines 1162-1177 and run_copy_window 508-538: build the batch, spawn its tasks
WindowDispatch ==
    /\ pc = "window"
    /\ lc.next_start_byte < lc.content_length
    /\ LET n == Min(lc.target_concurrency,
                    CeilDiv(lc.content_length - lc.next_start_byte, lc.part_size))
           start(i) == lc.next_start_byte + (i - 1) * lc.part_size
       IN /\ tasks' = [i \in 1..n |->
                          [part_number |-> PartNumberAfter(lc.next_part_number, i - 1),
                           start_byte |-> start(i),
                           end_byte |-> EndByte(start(i), lc.part_size, lc.content_length),
                           st |-> "spawned", elapsed |-> 0]]
          /\ lc' = [lc EXCEPT !.next_part_number = PartNumberAfter(@, n),
                              !.next_start_byte =
                                  EndByte(start(n), lc.part_size, lc.content_length) + 1]
    /\ pc' = "join"
    /\ UNCHANGED <<cfg, src, dest, dest0, upload, calls, progress, result, planVars, adaptVars, fnVars>>

\* lines 521-526: a spawned task takes its permit and sends upload_part_copy
TaskStart(i) ==
    /\ tasks[i].st = "spawned"
    /\ tasks' = [tasks EXCEPT ![i].st = "inflight"]
    /\ calls' = IF PartCopyIsSent(cfg.dry_run) THEN Bump(calls, "part") ELSE calls
    /\ UNCHANGED <<cfg, src, dest, dest0, upload, pc, lc, progress, result, planVars, adaptVars, fnVars>>

\* lines 524-535: the part is stored, progress is advanced, the task ends Ok
TaskOk(i) ==
    /\ tasks[i].st = "inflight"
    /\ cfg.dry_run \/ upload.state = "Open"
    /\ \E secs \in PartSeconds :
          tasks' = [tasks EXCEPT ![i].st = "ok", ![i].elapsed = secs]
    /\ LET part_bytes == tasks[i].end_byte - tasks[i].start_byte + 1
       IN /\ upload' = IF PartCopyIsSent(cfg.dry_run)
                       THEN [upload EXCEPT !.parts = @ \cup
                                {[part_number |-> tasks[i].part_number,
                                  bytes |-> part_bytes]}]
                       ELSE upload
          /\ progress' = [progress EXCEPT !.copied_bytes = @ + part_bytes,
                                          !.completed_parts = @ + 1]
    /\ UNCHANGED <<cfg, src, dest, dest0, calls, pc, lc, result, planVars, adaptVars, fnVars>>

\* line 526: upload_part_copy failed, the task ends Err without touching progress
TaskFail(i) ==
    /\ tasks[i].st = "inflight"
    /\ PartCopyIsSent(cfg.dry_run)
    /\ tasks' = [tasks EXCEPT ![i].st = "err"]
    /\ UNCHANGED <<cfg, src, dest, dest0, upload, calls, pc, lc, progress, result,
                   planVars, adaptVars, fnVars>>

\* lines 540-554: the join loop awaits the handles in spawn order and returns
\* at the first Err it meets; FirstErr is that handle, 0 when there is none yet
FirstErr(ts) ==
    IF \E i \in 1..Len(ts) : ts[i].st = "err" /\ \A j \in 1..(i - 1) : ts[j].st = "ok"
    THEN CHOOSE i \in 1..Len(ts) : ts[i].st = "err" /\ \A j \in 1..(i - 1) : ts[j].st = "ok"
    ELSE 0

RECURSIVE SumElapsed(_)
SumElapsed(ts) == IF ts = <<>> THEN 0 ELSE Head(ts).elapsed + SumElapsed(Tail(ts))
RECURSIVE SumBytes(_)
SumBytes(ts) ==
    IF ts = <<>> THEN 0
    ELSE (Head(ts).end_byte - Head(ts).start_byte + 1) + SumBytes(Tail(ts))
RECURSIVE MaxElapsed(_)
MaxElapsed(ts) == IF ts = <<>> THEN 0 ELSE Max(Head(ts).elapsed, MaxElapsed(Tail(ts)))

\* lines 556-568: the window's metrics; the throughput quotient is rounded up
\* to whole MiB/s (it is only tested for > 0), the wall time is that of the
\* slowest part
WindowMetricsOf(ts) ==
    [total_part_seconds |-> SumElapsed(ts),
     parts |-> Max(Len(ts), 1),
     throughput_mib_s |-> CeilDiv(SumBytes(ts), MIB * Max(MaxElapsed(ts), 1)),
     had_retryable_pressure |-> FALSE]

\* lines 1176-1196: the window returned Ok; its parts are appended in handle
\* order and (auto) the concurrency is adapted
WindowJoinOk ==
    /\ pc = "join"
    /\ \A i \in 1..Len(tasks) : tasks[i].st = "ok"
    /\ lc' = [lc EXCEPT !.completed_parts =
                            @ \o [i \in 1..Len(tasks) |-> tasks[i].part_number],
                        !.target_concurrency =
                            IF cfg.auto
                            THEN adapt_concurrency(cfg.auto_profile, @,
                                                   AUTO_MIN_CONCURRENCY,
                                                   lc.max_auto_concurrency,
                                                   WindowMetricsOf(tasks))
                            ELSE @]
    /\ pc' = "window"
    /\ UNCHANGED <<cfg, src, dest, dest0, upload, calls, tasks, progress, result,
                   planVars, adaptVars, fnVars>>

\* A window loop that goes on to the next batch after a failed window.
WindowJoinErrContinues ==
    /\ pc = "join"
    /\ FirstErr(tasks) # 0
    /\ lc' = [lc EXCEPT !.upload_err = "PartFailed"]
    /\ pc' = "window"
    /\ UNCHANGED <<cfg, src, dest, dest0, upload, calls, tasks, progress, result,
                   planVars, adaptVars, fnVars>>

\* lines 547-552, 1178: the window returned the first Err in handle order; the
\* tasks behind it are not awaited
WindowJoinErr ==
    /\ pc = "join"
    /\ FirstErr(tasks) # 0
    /\ lc' = [lc EXCEPT !.upload_err = "PartFailed"]
    /\ pc' = "abort"
    /\ UNCHANGED <<cfg, src, dest, dest0, upload, calls, tasks, progress, result,
                   planVars, adaptVars, fnVars>>

\* the checksums the store reports for an object assembled from parts
MultipartSums(alg) == IF alg = NoVal THEN NoSums ELSE [NoSums EXCEPT ![alg] = "composite"]

\* the store accepts a part list that is strictly ascending and names only
\* parts it holds for the upload
Ascending(parts) == \A i \in 1..(Len(parts) - 1) : parts[i] < parts[i + 1]
StoreAccepts(u, parts) ==
    /\ u.state = "Open"
    /\ parts # <<>>
    /\ Ascending(parts)
    /\ \A i \in 1..Len(parts) : \E p \in u.parts : p.part_number = parts[i]

RECURSIVE ListedBytes(_, _)
ListedBytes(u, parts) ==
    IF parts = <<>> THEN 0
    ELSE (CHOOSE p \in u.parts : p.part_number = Head(parts)).bytes
         + ListedBytes(u, Tail(parts))

\* lines 1199-1216 and complete_multipart_upload (435-470): the window loop has
\* ended; sort, submit.  A failed request has no effect on the store.
Complete ==
    /\ pc = "window"
    /\ lc.next_start_byte >= lc.content_length
    /\ LET sorted == SortParts(lc.completed_parts)
       IN IF ~CompleteIsSent(cfg.dry_run)
          THEN /\ lc' = [lc EXCEPT !.submitted = Some(sorted)]
               /\ pc' = "verify"
               /\ UNCHANGED <<calls, upload, dest>>
          ELSE /\ calls' = Bump(calls, "complete")
               /\ \E o \in (IF StoreAccepts(upload, sorted) THEN Outcomes ELSE {"error"}) :
                     /\ IF o = "ok"
                        THEN /\ upload' = [upload EXCEPT !.state = "Completed"]
                             /\ dest' = Some(PublishedObject(
                                            upload.req[1], ListedBytes(upload, sorted),
                                            MultipartETag,
                                            MultipartSums(upload.req[1].checksum_algorithm)))
                        ELSE UNCHANGED <<upload, dest>>
                     /\ IF CompleteFailed(o)
                        THEN /\ lc' = [lc EXCEPT !.submitted = Some(sorted),
                                                 !.upload_err = "CompleteFailed"]
                             /\ pc' = "abort"
                        ELSE /\ lc' = [lc EXCEPT !.submitted = Some(sorted)]
                             /\ pc' = "verify"
    /\ UNCHANGED <<cfg, src, dest0, tasks, progress, result, planVars, adaptVars, fnVars>>

\* lines 1222-1229 and abort_multipart_upload (473-499): best-effort cleanup,
\* then the upload block's error is returned
Abort ==
    /\ pc = "abort"
    /\ IF ~AbortIsSent(cfg.dry_run)
       THEN /\ Return(ErrorAfterCleanup(lc.upload_err, "none"))
            /\ UNCHANGED <<calls, upload, lc>>
       ELSE /\ calls' = Bump(calls, "abort")
            /\ \E o \in Outcomes :
                  LET abort_err == IF o = "ok" /\ upload.state = "Open"
                                   THEN "none" ELSE "AbortFailed"
                  IN /\ upload' = IF abort_err = "none"
                                  THEN [upload EXCEPT !.state = "Aborted", !.parts = {}]
                                  ELSE upload
                     /\ lc' = [lc EXCEPT !.abort_err = abort_err]
                     /\ Return(ErrorAfterCleanup(lc.upload_err, abort_err))
    /\ UNCHANGED <<cfg, src, dest, dest0, tasks, progress, planVars, adaptVars, fnVars>>

\* the order in which the checksum headers are looked at
Precedence == <<"sha256", "sha1", "crc32c", "crc32">>
PrecedenceLabel == <<"SHA256", "SHA1", "CRC32C", "CRC32">>
PresentSums(meta) == {i \in 1..4 : meta.sums[Precedence[i]] # NoVal}
FirstPresent(meta) == CHOOSE i \in PresentSums(meta) : \A j \in PresentSums(meta) : i <= j

\* An extraction that looks at SHA1 before SHA256.
extract_checksum_value_sha1_first(meta) ==
    IF meta.sums["sha1"] # NoVal THEN Some(<<"SHA1", meta.sums["sha1"]>>)
    ELSE IF meta.sums["sha256"] # NoVal THEN Some(<<"SHA256", meta.sums["sha256"]>>)
    ELSE IF meta.sums["crc32c"] # NoVal THEN Some(<<"CRC32C", meta.sums["crc32c"]>>)
    ELSE IF meta.sums["crc32"] # NoVal THEN Some(<<"CRC32", meta.sums["crc32"]>>)
    ELSE None

\* extract_checksum_value, app.rs:571-585
extract_checksum_value(meta) ==
    IF meta.sums["sha256"] # NoVal THEN Some(<<"SHA256", meta.sums["sha256"]>>)
    ELSE IF meta.sums["sha1"] # NoVal THEN Some(<<"SHA1", meta.sums["sha1"]>>)
    ELSE IF meta.sums["crc32c"] # NoVal THEN Some(<<"CRC32C", meta.sums["crc32c"]>>)
    ELSE IF meta.sums["crc32"] # NoVal THEN Some(<<"CRC32", meta.sums["crc32"]>>)
    ELSE None

\* verify_checksum_with_provider, app.rs:587-605
verify_checksum_with_provider(source_metadata, dest_metadata) ==
    LET s == extract_checksum_value(source_metadata)
        d == extract_checksum_value(dest_metadata)
    IN IF s # None /\ d # None
       THEN (IF s = d THEN "ok" ELSE "ChecksumMismatch")
       ELSE "ChecksumUnavailable"

\* lines 1257-1273: the ETag mode of the verifier
VerifyEtag(source_metadata, dest_metadata) ==
    LET src_etag == UnwrapOrDefault(source_metadata.e_tag)
        dst_etag == UnwrapOrDefault(dest_metadata.e_tag)
        tracked_src == IF dest_metadata.source_etag = None THEN <<>>
                       ELSE StandardizeQuotes(dest_metadata.source_etag[1])
        normalized_src == StandardizeQuotes(src_etag)
    IN IF src_etag # <<>> /\ dst_etag # <<>> /\ src_etag # dst_etag
          /\ tracked_src # normalized_src
       THEN "EtagMismatch" ELSE "ok"

\* A verifier that does not compare sizes.
VerifyOutcomeNoSizeCheck(verify_integrity, content_length, source_metadata, dest_metadata) ==
    IF verify_integrity = "Etag" THEN VerifyEtag(source_metadata, dest_metadata)
    ELSE IF verify_integrity = "Checksum"
    THEN verify_checksum_with_provider(source_metadata, dest_metadata)
    ELSE "ok"

\* lines 1248-1278: the size check, then the check of the mode
VerifyOutcome(verify_integrity, content_length, source_metadata, dest_metadata) ==
    IF dest_metadata.size # content_length THEN "SizeMismatch"
    ELSE IF verify_integrity = "Etag" THEN VerifyEtag(source_metadata, dest_metadata)
    ELSE IF verify_integrity = "Checksum"
    THEN verify_checksum_with_provider(source_metadata, dest_metadata)
    ELSE "ok"

\* lines 1231-1296: the verifier after a completed upload
Verify ==
    /\ pc = "verify"
    /\ IF cfg.dry_run \/ cfg.verify_integrity = "Off"
       THEN Return("ok") /\ UNCHANGED calls
       ELSE \E os \in Outcomes, od \in Outcomes :
               IF os = "error"
               THEN calls' = Bump(calls, "head_source") /\ Return("VerifyHeadFailed")
               ELSE /\ calls' = Bump(Bump(calls, "head_source"), "head_dest")
                    /\ IF od = "error" \/ dest = None THEN Return("VerifyHeadFailed")
                       ELSE Return(VerifyOutcome(cfg.verify_integrity, lc.content_length,
                                                 src[1], dest[1]))
    /\ UNCHANGED <<cfg, src, dest, dest0, upload, lc, tasks, progress, planVars, adaptVars, fnVars>>

----------------------------------------------------------------------------
(* The runs explored: configurations accepted by args.rs (part size 5..5120 *)
(* MiB, concurrency 1..1000) over a source and a destination key            *)

ETagA == <<"q", "a", "q">>
ETagOld == <<"q", "o", "q">>
TagsA == <<"k=v">>
TagsB == <<"k=w">>
HeadersA == [NoHeaders EXCEPT !["content_type"] = "text/plain"]
HeadersB == [NoHeaders EXCEPT !["content_type"] = "text/html"]

Object(size, e_tag, source_etag, storage_class, hdr, tags) ==
    [size |-> size, e_tag |-> Some(e_tag), source_etag |-> source_etag,
     storage_class |-> storage_class, hdr |-> hdr, tags |-> tags, sums |-> NoSums]

SourceObject(size, storage_class) ==
    Object(size, ETagA, None, storage_class, HeadersA, TagsA)

\* main.rs / args.rs defaults
BaseCfg ==
    [auto |-> FALSE, auto_profile |-> "Balanced", concurrency |-> 2,
     part_size |-> 5 * MIB, storage_class |-> NoVal, no_metadata |-> FALSE,
     no_tags |-> FALSE, no_storage_class |-> FALSE, dry_run |-> FALSE,
     force_copy |-> FALSE, verify_integrity |-> "Etag", checksum_algorithm |-> NoVal,
     full_control |-> FALSE, no_acl |-> FALSE, sse |-> NoVal]

ManualCaps == {1, 2, 3}
ManualSizes == {11 * MIB, 16 * MIB}
AutoCaps == {1, 3, 1000}
AutoSize == 5 * GIB + 1
StorageClasses == {NoVal, "STANDARD_IA"}

\* manual multipart runs over an absent or an unrelated destination
ManualRuns ==
    { [cfg |-> [BaseCfg EXCEPT !.concurrency = cap, !.dry_run = dry, !.force_copy = force,
                               !.verify_integrity = IF cap = 2 THEN "Off" ELSE "Etag"],
       src |-> Some(SourceObject(size, NoVal)),
       dest |-> d] :
        cap \in ManualCaps, dry \in BOOLEAN, force \in BOOLEAN, size \in ManualSizes,
        d \in {None, Some(Object(7 * MIB, ETagOld, None, NoVal, HeadersB, TagsB))} }

\* auto-mode multipart runs (at least 5 GiB, so not Instant-Copy)
AutoRuns ==
    { [cfg |-> [BaseCfg EXCEPT !.auto = TRUE, !.auto_profile = "CostEfficient",
                               !.concurrency = cap],
       src |-> Some(SourceObject(AutoSize, NoVal)),
       dest |-> None] : cap \in AutoCaps }

\* runs whose destination already holds the source's data
PrecheckRuns ==
    { [cfg |-> [BaseCfg EXCEPT !.part_size = 5120 * MIB, !.dry_run = dry],
       src |-> Some(SourceObject(size, sc)),
       dest |-> Some(Object(size, e.e_tag, e.source_etag, sc, hdr, tags))] :
        size \in {5 * MIB, 5 * GIB, 5 * GIB + 1}, sc \in StorageClasses,
        hdr \in {HeadersA, HeadersB}, tags \in {TagsA, TagsB, <<>>}, dry \in BOOLEAN,
        e \in {[e_tag |-> ETagA, source_etag |-> None],
               [e_tag |-> MultipartETag, source_etag |-> Some(ETagA)]} }

VerifyModes == {"Off", "Etag", "Checksum"}

\* auto mode on both sides of the 5 GiB threshold, under every verify mode
ThresholdRuns ==
    { [cfg |-> [BaseCfg EXCEPT !.auto = TRUE, !.auto_profile = "CostEfficient",
                               !.concurrency = 4, !.dry_run = dry,
                               !.verify_integrity = v],
       src |-> Some(SourceObject(size, NoVal)),
       dest |-> None] :
        size \in {5 * GIB - 1, 5 * GIB}, dry \in BOOLEAN, v \in VerifyModes }

\* auto mode below 5 GiB, a missing source, an empty source
SmallRuns ==
    { [cfg |-> [BaseCfg EXCEPT !.auto = TRUE, !.dry_run = dry],
       src |-> Some(SourceObject(5 * MIB, NoVal)), dest |-> None] : dry \in BOOLEAN }
    \cup { [cfg |-> BaseCfg, src |-> None, dest |-> None],
           [cfg |-> BaseCfg, src |-> Some(SourceObject(0, NoVal)), dest |-> None] }

\* force_copy over a destination that is already identical to the source
ForcedRuns ==
    { [cfg |-> [BaseCfg EXCEPT !.force_copy = TRUE, !.auto = a, !.dry_run = dry,
                               !.concurrency = 1, !.verify_integrity = "Off"],
       src |-> Some(SourceObject(5 * MIB, NoVal)),
       dest |-> Some(SourceObject(5 * MIB, NoVal))] : a \in BOOLEAN, dry \in BOOLEAN }

\* an empty source over an absent, an unrelated and an identical destination
EmptyRuns ==
    { [cfg |-> [BaseCfg EXCEPT !.force_copy = force, !.auto = a, !.dry_run = dry],
       src |-> Some(SourceObject(0, NoVal)),
       dest |-> d] :
        force \in BOOLEAN, a \in BOOLEAN, dry \in BOOLEAN,
        d \in {None, Some(Object(7 * MIB, ETagOld, None, NoVal, HeadersB, TagsB)),
               Some(Object(0, ETagOld, None, NoVal, HeadersA, TagsA)),
               Some(Object(0, ETagA, None, NoVal, HeadersA, TagsB))} }

\* an absent source
MissingRuns ==
    { [cfg |-> [BaseCfg EXCEPT !.force_copy = force, !.auto = a],
       src |-> None,
       dest |-> d] :
        force \in BOOLEAN, a \in BOOLEAN,
        d \in {None, Some(Object(7 * MIB, ETagOld, None, NoVal, HeadersB, TagsB))} }

Runs ==
    ManualRuns \cup AutoRuns \cup PrecheckRuns \cup ThresholdRuns \cup SmallRuns
        \cup ForcedRuns \cup EmptyRuns \cup MissingRuns

Init ==
    /\ \E r \in Runs : cfg = r.cfg /\ src = r.src /\ dest = r.dest /\ dest0 = r.dest
    /\ upload = NoUpload
    /\ calls = NoCalls
    /\ pc = "start"
    /\ lc = NoLocals
    /\ tasks = <<>>
    /\ progress = NoProgress
    /\ result = "none"
    /\ pl = [pc |-> "idle"]
    /\ ad = [pc |-> "idle"]
    /\ fn = [op |-> "idle"]

Next ==
    \/ HeadSource
    \/ ForceCopy
    \/ HeadDest
    \/ PreSourceTags
    \/ PreDestTags
    \/ PropertySync
    \/ TagSync
    \/ FetchSourceTags
    \/ InstantCopy
    \/ Plan
    \/ Initiate
    \/ ProbeIssue
    \/ ProbeReturnOk
    \/ ProbeReturnFail
    \/ WindowDispatch
    \/ \E i \in 1..Len(tasks) : TaskStart(i)
    \/ \E i \in 1..Len(tasks) : TaskOk(i)
    \/ \E i \in 1..Len(tasks) : TaskFail(i)
    \/ WindowJoinOk
    \/ WindowJoinErr
    \/ Complete
    \/ Abort
    \/ Verify

Spec == Init /\ [][Next]_vars

TypeOK ==
    /\ pc \in {"start", "head_dest", "pre_tags_src", "pre_tags_dst", "prop_sync",
               "tag_sync", "copy_tags", "instant", "plan", "initiate", "probe",
               "probe_wait", "window", "join", "abort", "verify", "done"}
    /\ upload.state \in {"None", "Open", "Completed", "Aborted"}

----------------------------------------------------------------------------
(* Properties of the multipart lifecycle                                   *)

\* create_multipart_upload succeeded in a run that is not a dry run
Opened == ~cfg.dry_run /\ lc.upload_id # ""
Returned == pc = "done"
InFlight == {i \in 1..Len(tasks) : tasks[i].st = "inflight"}
MutatingCalls ==
    calls.copy_object + calls.put_tagging + calls.create + calls.part
        + calls.complete + calls.abort

\* C1 as stated: when copy_file returns after create_multipart_upload
\* succeeded (no dry run), exactly one of complete_multipart_upload and
\* abort_multipart_upload has been invoked, never both, never neither.
C1_ExactlyOneOfCompleteAbort ==
    (Opened /\ Returned) => calls.complete + calls.abort = 1

\* C1 amended: each of the two is invoked at most once; when copy_file returns,
\* abort has been invoked exactly when the upload block failed (probe part,
\* window part or complete itself), complete exactly when no part failed, so at
\* least one of them was invoked, and both exactly when complete itself failed.
C1_CompleteAbortInvocations ==
    /\ calls.complete <= 1 /\ calls.abort <= 1
    /\ (Opened /\ Returned) =>
          /\ calls.complete + calls.abort >= 1
          /\ calls.abort = 1 <=> lc.upload_err # "none"
          /\ calls.complete = 1 <=> lc.upload_err # "PartFailed"
          /\ (calls.complete = 1 /\ calls.abort = 1) <=> lc.upload_err = "CompleteFailed"

C1_Witness ==
    /\ Opened /\ Returned
    /\ lc.upload_err = "CompleteFailed"
    /\ calls.complete = 1 /\ calls.abort = 1

\* C2 as stated: when copy_file returns after create_multipart_upload
\* succeeded (no dry run), the upload is Completed or Aborted in the store,
\* never still Open, whatever failed, a failing abort included.
C2_NeverLeftOpen ==
    (Opened /\ Returned) => upload.state \in {"Completed", "Aborted"}

\* C2 amended: when copy_file returns, the upload is Completed if the upload
\* block succeeded, Aborted if it failed and the abort request succeeded, and
\* still Open only if the abort request itself failed.
C2_TerminalUnlessAbortFails ==
    (Opened /\ Returned) =>
        /\ lc.upload_err = "none" => upload.state = "Completed"
        /\ (lc.upload_err # "none" /\ lc.abort_err = "none") => upload.state = "Aborted"
        /\ (lc.upload_err # "none" /\ lc.abort_err # "none") =>
              (upload.state = "Open" /\ calls.abort = 1)

C2_Witness ==
    /\ Opened /\ Returned
    /\ lc.upload_err = "PartFailed"
    /\ upload.state = "Aborted"
    /\ lc.abort_err = "none"

\* C3: once a probe part, a window part or complete_multipart_upload has
\* failed inside an opened upload, copy_file invokes abort_multipart_upload
\* and returns that original failure, also when the abort fails.
C3_AbortThenOriginalError ==
    /\ (lc.upload_err # "none" /\ Returned) =>
          /\ calls.abort = 1
          /\ result = lc.upload_err
    /\ (Opened /\ Returned /\ calls.abort = 0) => lc.upload_err = "none"
    /\ (pc = "abort") => (lc.upload_err # "none" /\ calls.abort = 0)

C3_Witness ==
    /\ Returned
    /\ lc.upload_err = "PartFailed"
    /\ lc.abort_err = "AbortFailed"
    /\ calls.abort = 1
    /\ result = "PartFailed"

\* C4: on the multipart path the destination's visible object stays what it
\* was before the call until complete_multipart_upload succeeds; in
\* particular it is unchanged when copy_file returns an error of initiation
\* or of the upload block.
C4_DestinationUnchangedOnError ==
    /\ (Returned /\ (result = "CreateFailed" \/ lc.upload_err # "none")) => dest = dest0
    /\ (pc \in {"plan", "initiate", "probe", "probe_wait", "window", "join", "abort"})
          => dest = dest0

C4_Witness ==
    /\ Returned
    /\ lc.upload_err = "PartFailed"
    /\ result = "PartFailed"
    /\ calls.part >= 2
    /\ dest0 # None
    /\ dest = dest0

\* C5: the part list handed to complete_multipart_upload in a run whose upload
\* block succeeds is exactly 1, 2, ..., N, N being the number of parts copied.
C5_PartListOneToN ==
    (lc.submitted # None /\ lc.upload_err = "none") =>
        /\ lc.submitted[1] = [i \in 1..Len(lc.submitted[1]) |-> i]
        /\ Len(lc.submitted[1]) = lc.num_parts
        /\ lc.next_start_byte = lc.content_length

C5_Witness ==
    /\ Returned /\ result = "ok"
    /\ ~cfg.dry_run
    /\ lc.probe_done = 2
    /\ lc.target_concurrency > cfg.concurrency
    /\ lc.submitted = Some(<<1, 2, 3, 4, 5, 6>>)

\* the destination equals the source in size and ETag (or recorded
\* source-etag), tags, storage class and tracked headers, and nothing forces
\* or overrides
AlreadyIdentical ==
    /\ src # None /\ dest0 # None
    /\ ~cfg.force_copy /\ cfg.storage_class = NoVal
    /\ DataMatches(dest0[1], src[1], src[1].size)
    /\ dest0[1].tags = src[1].tags
    /\ dest0[1].storage_class = src[1].storage_class
    /\ dest0[1].hdr = src[1].hdr

\* no tagging request of the precheck was answered NoSuchKey
TagReadsAnswered ==
    \/ pc \in {"start", "head_dest", "pre_tags_src"}
    \/ pc = "pre_tags_dst" /\ lc.pre_source_tags # None
    \/ lc.tags_match

\* C8: with the destination already identical to the source (any shared
\* storage class, no override, no force_copy), copy_file invokes no mutating
\* store operation and, every read succeeding, returns success from the
\* precheck.
C8_SkipIsIdempotent ==
    (AlreadyIdentical /\ TagReadsAnswered) =>
        /\ MutatingCalls = 0
        /\ pc \in {"start", "head_dest", "pre_tags_src", "pre_tags_dst", "done"}

\* C9: during a multipart run the in-flight upload_part_copy requests number
\* at most target_concurrency, and target_concurrency is at most the configured
\* concurrency cap.
C9_InFlightWithinCap ==
    (lc.upload_id # "" /\ ~Returned) =>
        /\ Cardinality(InFlight) <= lc.target_concurrency
        /\ lc.target_concurrency <= cfg.concurrency

----------------------------------------------------------------------------
(* Properties of the strategy selector and of dry runs                     *)

MultipartCalls == calls.create + calls.part + calls.complete + calls.abort
\* the flow has passed the precheck and the source-tag fetch of the copy phase
CopyPhase == lc.strategy \in {"instant", "multipart"}
InstantCase == cfg.auto /\ lc.content_length < 5 * GIB

\* C14 as stated: in the copy phase with size > 0 the Instant-Copy path is
\* taken exactly when auto is on and size < 5 GiB; that path issues exactly one
\* copy_object and no multipart operation, the other path issues
\* create_multipart_upload and no copy_object.
C14_InstantIffAutoSmall ==
    /\ pc = "instant" => InstantCase
    /\ pc = "plan" => ~InstantCase
    /\ CopyPhase => (lc.strategy = "instant" <=> InstantCase)
    /\ (CopyPhase /\ Returned /\ lc.strategy = "instant") =>
          (calls.copy_object = 1 /\ MultipartCalls = 0)
    /\ (CopyPhase /\ Returned /\ lc.strategy = "multipart") =>
          (calls.create = 1 /\ calls.copy_object = 0)

\* C14 amended: the same choice of path, with the requests counted for
\* dry_run = false; with dry_run = true the same path is taken and neither
\* copy_object nor create_multipart_upload is issued.
C14_InstantIffAutoSmallSent ==
    /\ pc = "instant" => InstantCase
    /\ pc = "plan" => ~InstantCase
    /\ CopyPhase => (lc.strategy = "instant" <=> InstantCase)
    /\ (CopyPhase /\ lc.strategy = "instant") => MultipartCalls = 0
    /\ (CopyPhase /\ lc.strategy = "multipart") => calls.copy_object = 0
    /\ (CopyPhase /\ Returned /\ lc.strategy = "instant") =>
          calls.copy_object = (IF cfg.dry_run THEN 0 ELSE 1)
    /\ (CopyPhase /\ Returned /\ lc.strategy = "multipart") =>
          calls.create = (IF cfg.dry_run THEN 0 ELSE 1)

C14_Witness ==
    /\ Returned /\ result = "ok"
    /\ ~cfg.dry_run /\ cfg.auto
    /\ lc.content_length = 5 * GIB
    /\ lc.strategy = "multipart"
    /\ calls.create = 1 /\ calls.copy_object = 0

\* the precheck has decided, on a destination holding the source's data
\* without force_copy
DataMatchDecided ==
    /\ ~cfg.force_copy
    /\ src # None /\ dest0 # None
    /\ DataMatches(dest0[1], src[1], src[1].size)
    /\ lc.strategy # "none"

\* the case of Property-Sync: size up to 5 GiB and one of the three
\* predicates false
PropertySyncCase ==
    /\ DataMatchDecided
    /\ src[1].size <= 5 * GIB
    /\ ~(/\ lc.tags_match
         /\ StorageClassMatch(cfg, dest0[1], src[1])
         /\ MetadataMatch(cfg, dest0[1], src[1]))

\* C15 as stated: in the case of Property-Sync copy_file issues exactly one
\* copy_object with the REPLACE metadata directive, no multipart operation and
\* no put_object_tagging, and returns success (the request succeeding).
C15_PropertySyncOneCopy ==
    (PropertySyncCase /\ Returned) =>
        /\ calls.copy_object = 1
        /\ lc.copy_request # None
        /\ lc.copy_request[1].metadata_directive = "REPLACE"
        /\ MultipartCalls = 0 /\ calls.put_tagging = 0
        /\ result \in {"ok", "CopyObjectFailed"}

\* C15 amended: with dry_run = false, as stated, success being returned when
\* the copy_object request succeeds and its failure otherwise; with dry_run =
\* true no request is issued and success is returned.
C15_PropertySyncOneCopySent ==
    /\ PropertySyncCase => (MultipartCalls = 0 /\ calls.put_tagging = 0)
    /\ (PropertySyncCase /\ Returned /\ ~cfg.dry_run) =>
          /\ calls.copy_object = 1
          /\ lc.copy_request # None
          /\ lc.copy_request[1].metadata_directive = "REPLACE"
          /\ result \in {"ok", "CopyObjectFailed"}
          /\ result = "ok" => dest = Some(CopiedObject(lc.copy_request[1], src[1]))
          /\ result # "ok" => dest = dest0
    /\ (PropertySyncCase /\ Returned /\ cfg.dry_run) =>
          (calls.copy_object = 0 /\ result = "ok" /\ dest = dest0)

C15_Witness ==
    /\ PropertySyncCase /\ Returned /\ ~cfg.dry_run
    /\ src[1].size = 5 * GIB
    /\ ~lc.tags_match
    /\ result = "ok"
    /\ calls.copy_object = 1
    /\ dest[1].tags = src[1].tags

\* C16, for dry_run = false: above 5 GiB with the data, the storage class and
\* the metadata matching and only the tags differing, copy_file issues exactly
\* one put_object_tagging and neither a multipart operation nor a copy_object,
\* whatever the tagging request for the source answered.
C16_TagSyncOnePutTagging ==
    (/\ DataMatchDecided /\ Returned /\ ~cfg.dry_run
     /\ src[1].size > 5 * GIB
     /\ ~lc.tags_match
     /\ StorageClassMatch(cfg, dest0[1], src[1])
     /\ MetadataMatch(cfg, dest0[1], src[1]))
    => (calls.put_tagging = 1 /\ MultipartCalls = 0 /\ calls.copy_object = 0)

\* C17: a dry run sends no mutating request on any path and leaves the store
\* as it was; its multipart path runs under the upload id "DRY-RUN-UPLOAD-ID".
C17_DryRunSendsNothing ==
    cfg.dry_run =>
        /\ MutatingCalls = 0
        /\ dest = dest0 /\ upload = NoUpload
        /\ lc.upload_id \in {"", "DRY-RUN-UPLOAD-ID"}
        /\ pc \in {"probe", "probe_wait", "window", "join", "verify"}
              => lc.upload_id = "DRY-RUN-UPLOAD-ID"

C17_Witness ==
    /\ cfg.dry_run /\ Returned /\ result = "ok"
    /\ lc.strategy = "multipart"
    /\ lc.upload_id = "DRY-RUN-UPLOAD-ID"
    /\ lc.submitted = Some(<<1, 2, 3, 4>>)
    /\ MutatingCalls = 0

\* C18: after a successful Instant-Copy or Multipart-Copy the verifier has
\* re-HEADed source and destination exactly when dry_run is false and verify
\* is not Off.
C18_VerifierRunsAfterCopy ==
    (CopyPhase /\ Returned /\ result = "ok") =>
        (calls.head_source = 2 <=> (~cfg.dry_run /\ cfg.verify_integrity # "Off"))

----------------------------------------------------------------------------
(* Properties of the published headers, of force_copy and of failures      *)

\* the source ETag with its surrounding quotes stripped
StrippedSourceETag == Some(trim_matches(UnwrapOrDefault(src[1].e_tag)))

\* C23: every write that publishes the object (create_multipart_upload, the
\* copy_object of Property-Sync and of Instant-Copy) records under source-etag
\* the source ETag with its surrounding quotes stripped, with skip_metadata
\* set or not.
C23_SourceEtagStripped ==
    /\ upload.req # None => upload.req[1].source_etag = StrippedSourceETag
    /\ lc.copy_request # None => lc.copy_request[1].source_etag = StrippedSourceETag

\* C24: with force_copy = true no destination HEAD and no tag comparison
\* precedes the copy (the only destination HEAD is the verifier's), the run
\* never takes Skip, Property-Sync or Tag-Sync, and for size > 0 it goes to
\* Instant-Copy or Multipart-Copy once the source HEAD and the tag fetch of
\* the copy phase have answered, even over an identical destination.
C24_ForceCopySkipsPrechecks ==
    cfg.force_copy =>
        /\ lc.strategy \notin {"skip", "prop_sync", "tag_sync"}
        /\ pc \notin {"pre_tags_src", "pre_tags_dst", "prop_sync", "tag_sync"}
        /\ calls.put_tagging = 0 /\ calls.get_tags <= 1
        /\ lc.pre_source_tags = None
        /\ pc \notin {"verify", "done"} => calls.head_dest = 0
        /\ calls.head_dest > 0 => calls.head_source = 2
        /\ (/\ src # None /\ src[1].size > 0
            /\ Returned /\ result \notin {"HeadSourceFailed", "TagFetchFailed"})
           => CopyPhase

C24_Witness ==
    /\ cfg.force_copy /\ ~cfg.dry_run
    /\ dest0 = src
    /\ Returned /\ result = "ok"
    /\ lc.strategy = "multipart"
    /\ calls.complete = 1 /\ calls.head_dest = 0

\* C25: an absent destination is recovered as "proceed to copy"; every other
\* failure of a store request makes copy_file return an error instead of
\* continuing: a failed get_bucket_region of auto planning included, and the
\* failure of a part copy or of the completion once the cleanup is done.
C25_StoreFailuresSurface ==
    /\ (~cfg.force_copy /\ dest0 = None /\ pc = "copy_tags") => calls.head_dest = 1
    /\ lc.region_err => (Returned /\ result # "ok")
    /\ lc.upload_err # "none" =>
          (pc \in {"join", "abort", "done"} /\ (Returned => result = lc.upload_err))
    /\ (Returned /\ result = "ok") => lc.upload_err = "none"

\* the empty source that the precheck does not answer
EmptyCase ==
    /\ src # None /\ src[1].size = 0
    /\ cfg.force_copy \/ dest0 = None \/ ~DataMatches(dest0[1], src[1], 0)

\* C26: with an empty source that the precheck does not short-circuit,
\* copy_file sends no store write and, the HEAD requests having answered,
\* returns EmptySource.
C26_EmptySourceFails ==
    EmptyCase =>
        /\ MutatingCalls = 0
        /\ calls.get_tags = 0 /\ calls.get_region = 0
        /\ pc \in {"start", "head_dest", "copy_tags", "done"}
        /\ Returned => result \in {"EmptySource", "HeadSourceFailed", "HeadDestFailed"}
        /\ (Returned /\ lc.strategy = "none" /\ calls.head_source = 1
              /\ result \notin {"HeadSourceFailed", "HeadDestFailed"})
           => result = "EmptySource"

C26_Witness ==
    /\ EmptyCase /\ ~cfg.force_copy /\ dest0 # None
    /\ dest0[1].size = 0
    /\ Returned /\ result = "EmptySource"
    /\ calls.head_dest = 1 /\ MutatingCalls = 0

\* C27: when the source HEAD reports the object absent, copy_file returns
\* SourceNotFound and performs no other store operation.
C27_SourceNotFoundStops ==
    src = None =>
        /\ calls.head_dest = 0 /\ calls.get_tags = 0 /\ calls.get_region = 0
        /\ MutatingCalls = 0 /\ calls.head_source <= 1
        /\ pc \in {"start", "done"}
        /\ Returned => result \in {"SourceNotFound", "HeadSourceFailed"}
        /\ Returned => calls.head_source = 1

C27_Witness ==
    /\ src = None /\ dest0 # None /\ ~cfg.force_copy
    /\ Returned /\ result = "SourceNotFound"
    /\ calls.head_source = 1 /\ calls.head_dest = 0

----------------------------------------------------------------------------
(* Properties of the window batches and of the protocol order              *)

Terminated(t) == t.st \in {"ok", "err"}

\* C29: run_copy_window returns only after every part task of its batch has
\* terminated: when abort_multipart_upload is about to be issued, and when
\* copy_file has returned, no task of the batch is still waiting or in flight.
C29_NoTaskOutlivesWindow ==
    (pc \in {"window", "abort", "verify", "done"}) =>
        \A i \in 1..Len(tasks) : Terminated(tasks[i])

\* the state part of C30: a part copy is only ever sent under a created
\* upload, and the completion has only been sent with all bytes scheduled,
\* every task ended Ok and the parts 1..N all returned
C30_State ==
    /\ calls.part > 0 => (calls.create = 1 /\ lc.upload_id = "upload-1")
    /\ calls.complete > 0 =>
          /\ calls.complete = 1
          /\ lc.next_start_byte = lc.content_length
          /\ \A i \in 1..Len(tasks) : tasks[i].st = "ok"
          /\ {lc.completed_parts[i] : i \in 1..Len(lc.completed_parts)}
                 = 1..Len(lc.completed_parts)
          /\ Len(lc.completed_parts) = calls.part

\* the step part of C30: nothing is sent before create_multipart_upload has
\* returned, no part copy is sent once the completion was sent, and no batch
\* is built once a part or a window has failed
C30_Step ==
    /\ calls.create = 0 => calls'.part = 0 /\ calls'.complete = 0
    /\ calls.complete > 0 => calls'.part = calls.part
    /\ lc.upload_err # "none" =>
          /\ lc'.next_part_number = lc.next_part_number
          /\ lc'.next_start_byte = lc.next_start_byte
          /\ calls'.complete = calls.complete

\* C30: in every multipart run create_multipart_upload returns before the
\* first upload_part_copy is issued, complete_multipart_upload is issued only
\* after all bytes are scheduled and every part 1..N has returned success, no
\* upload_part_copy is issued after it, and after a failed window no later
\* window is dispatched.
C30_ProtocolOrder == [](lc.strategy = "multipart" => C30_State) /\ [][C30_Step]_vars

C30_Witness ==
    /\ lc.strategy = "multipart" /\ ~cfg.dry_run
    /\ Returned /\ result = "ok"
    /\ calls.create = 1 /\ calls.part = 3 /\ calls.complete = 1
    /\ lc.submitted = Some(<<1, 2, 3>>)

----------------------------------------------------------------------------
(* Properties of the part list and of the progress counters                *)

\* C31: complete_multipart_upload is never invoked with an empty part list;
\* whenever it is reached at least one part has been copied successfully.
C31_CompleteNeverEmpty ==
    lc.submitted # None =>
        /\ Len(lc.submitted[1]) >= 1
        /\ Len(lc.completed_parts) >= 1
        /\ ~cfg.dry_run => calls.part >= 1

C31_Witness ==
    /\ ~cfg.dry_run /\ Returned /\ result = "ok"
    /\ calls.complete = 1
    /\ lc.submitted = Some(<<1>>)

\* the window phase: the progress tracker has been constructed
ProgressSet == pc \in {"window", "join", "verify"} \/ (Returned /\ lc.submitted # None)

\* the step part of C32
C32_Step ==
    /\ progress'.copied_bytes >= progress.copied_bytes
    /\ progress'.completed_parts >= progress.completed_parts
    /\ ProgressSet => progress'.total_parts = progress.total_parts

\* C32: in every state of a multipart run completed_parts <= total_parts,
\* total_parts never changes once the tracker is constructed, and
\* copied_bytes and completed_parts never decrease.
C32_ProgressMonotone ==
    [](progress.completed_parts <= progress.total_parts) /\ [][C32_Step]_vars

C32_Witness ==
    /\ lc.strategy = "multipart" /\ Returned /\ result = "ok"
    /\ progress.total_parts = 3
    /\ progress.completed_parts = 3
    /\ progress.copied_bytes = lc.content_length

\* C33: at the end of a successful multipart run completed_parts equals the
\* number of parts submitted to complete_multipart_upload and copied_bytes
\* equals the source size, progress having been advanced once per part that
\* was copied successfully.
C33_ProgressCountsEveryPart ==
    (lc.strategy = "multipart" /\ Returned /\ result = "ok") =>
        /\ progress.completed_parts = Len(lc.submitted[1])
        /\ progress.copied_bytes = lc.content_length

----------------------------------------------------------------------------
(* Termination of copy_file                                                *)

\* the steps of copy_file itself: its own code and the returns of the
\* requests it awaits
CopyFileStep ==
    \/ HeadSource \/ ForceCopy \/ HeadDest \/ PreSourceTags \/ PreDestTags
    \/ PropertySync \/ TagSync \/ FetchSourceTags \/ InstantCopy \/ Plan
    \/ Initiate \/ ProbeIssue \/ ProbeReturnOk \/ ProbeReturnFail
    \/ WindowDispatch \/ WindowJoinOk \/ WindowJoinErr \/ Complete \/ Abort
    \/ Verify

\* the steps of the spawned part tasks (run_copy_window, app.rs:520-535)
TaskStep == \E i \in 1..Len(tasks) : TaskStart(i) \/ TaskOk(i) \/ TaskFail(i)

\* every store operation eventually returns, and the runtime runs copy_file
\* and the tasks it spawned whenever they can take a step
Fairness == WF_vars(CopyFileStep) /\ WF_vars(TaskStep)

SpecLive == Init /\ [][Next]_vars /\ Fairness

\* one pass of the window loop up to the spawning of its batch
C39_WindowAdvances ==
    (pc = "window" /\ pc' = "join") =>
        /\ Len(tasks') >= 1
        /\ lc'.next_start_byte > lc.next_start_byte

\* C39: when every store operation eventually returns, every copy_file call
\* eventually returns: target_concurrency stays at least 1, so every window
\* schedules at least one part and moves the next start byte forward, and
\* the window loop ends.
C39_CopyFileReturns ==
    /\ [](pc \in {"probe", "probe_wait", "window", "join"} => lc.target_concurrency >= 1)
    /\ [][C39_WindowAdvances]_vars
    /\ <>Returned

C39_Witness ==
    /\ Returned /\ result = "ok"
    /\ cfg.auto /\ cfg.concurrency = 1
    /\ lc.strategy = "multipart"
    /\ lc.probe_done = 2 /\ Len(lc.completed_parts) = 6
    /\ Len(tasks) = 3 /\ tasks[1].part_number = 4
    /\ lc.target_concurrency = AUTO_MIN_CONCURRENCY

----------------------------------------------------------------------------
(* The pure functions applied to inputs drawn from bounded sets            *)

FnCurrents == {1, 2, 4, 5, 8, 50, 96, 1000}
FnMins == {1, 4, 50}
FnMaxes == {1, 4, 64, 1000}
\* two parts per window; totals on both sides of avg = 8 s and avg = 25 s
FnMetrics ==
    [total_part_seconds : {12, 16, 40, 50, 60}, parts : {2},
     throughput_mib_s : {0, 100, 400}, had_retryable_pressure : BOOLEAN]
FnCaps == {1, 3, 4, 16, 1000}

AdaptInputs ==
    [op : {"adapt_concurrency"}, profile : Profiles, current : FnCurrents,
     min : FnMins, max : FnMaxes, metrics : FnMetrics, out : {"pending"}]

BuildPlanInputs ==
    [op : {"build_auto_plan"}, profile : Profiles, size : PlanSizes,
     same_region : BOOLEAN, cap : FnCaps, out : {"pending"}]

\* auto.rs:201-228
ApplyAdapt ==
    /\ fn.op = "adapt_concurrency" /\ fn.out = "pending"
    /\ fn' = [fn EXCEPT !.out = <<adapt_concurrency(fn.profile, fn.current, fn.min,
                                                     fn.max, fn.metrics)>>]
    /\ UNCHANGED <<planVars, adaptVars, lifeVars>>

\* auto.rs:50-72
ApplyBuildPlan ==
    /\ fn.op = "build_auto_plan" /\ fn.out = "pending"
    /\ fn' = [fn EXCEPT !.out = <<build_auto_plan(fn.profile, fn.size, fn.same_region,
                                                   fn.cap)>>]
    /\ UNCHANGED <<planVars, adaptVars, lifeVars>>

Healthy(metrics) ==
    /\ ~metrics.had_retryable_pressure
    /\ metrics.total_part_seconds < 8 * metrics.parts
    /\ metrics.throughput_mib_s > 0
Slow(metrics) ==
    /\ ~metrics.had_retryable_pressure
    /\ metrics.total_part_seconds > 25 * metrics.parts
AdaptApplied == fn.op = "adapt_concurrency" /\ fn.out # "pending"
BuildPlanApplied == fn.op = "build_auto_plan" /\ fn.out # "pending"

\* C11: a healthy window moves adapt_concurrency's result above current
\* whenever current < max, a slow window moves it below current whenever
\* current > min, for every profile, current, min and max.
C11_AdaptMovesUpAndDown ==
    AdaptApplied =>
        /\ (Healthy(fn.metrics) /\ fn.current < fn.max) => fn.out[1] > fn.current
        /\ (Slow(fn.metrics) /\ fn.current > fn.min) => fn.out[1] < fn.current

C11_Witness ==
    /\ AdaptApplied
    /\ Slow(fn.metrics) /\ fn.current = 50 /\ fn.min = 4 /\ fn.max = 1
    /\ fn.profile = "Aggressive"
    /\ fn.out = <<42>>

\* C12 as stated: with had_retryable_pressure the result is never greater
\* than current, for every profile, current, min and max.
C12_PressureNeverIncreases ==
    (AdaptApplied /\ fn.metrics.had_retryable_pressure) => fn.out[1] <= fn.current

\* C12 amended: with had_retryable_pressure the result is max(min, current -
\* step): not greater than current whenever current >= min, and equal to min
\* (above current) when current < min.
C12_PressureNeverIncreasesAboveMin ==
    (AdaptApplied /\ fn.metrics.had_retryable_pressure) =>
        /\ fn.current >= fn.min => (fn.out[1] <= fn.current /\ fn.out[1] >= fn.min)
        /\ fn.current < fn.min => fn.out[1] = fn.min

C12_Witness ==
    /\ AdaptApplied
    /\ fn.metrics.had_retryable_pressure
    /\ fn.metrics.total_part_seconds = 12 /\ fn.metrics.throughput_mib_s = 400
    /\ fn.current = 50 /\ fn.min = 4 /\ fn.max = 1000
    /\ fn.profile = "Balanced"
    /\ fn.out = <<46>>

\* C13: for every profile, size > 0, same_region and cap in 1..1000 the plan
\* has 5 MiB <= initial_part_size <= 5 GiB and
\* 1 <= initial_concurrency <= max_concurrency <= cap.
C13_PlanWithinLimits ==
    (BuildPlanApplied /\ fn.size > 0 /\ fn.cap >= 1 /\ fn.cap <= 1000) =>
        /\ S3_MIN_PART_SIZE <= fn.out[1].initial_part_size
        /\ fn.out[1].initial_part_size <= S3_MAX_PART_SIZE
        /\ 1 <= fn.out[1].initial_concurrency
        /\ fn.out[1].initial_concurrency <= fn.out[1].max_concurrency
        /\ fn.out[1].max_concurrency <= fn.cap

C13_Witness ==
    /\ BuildPlanApplied
    /\ fn.size = 60000 * GIB /\ fn.cap = 3 /\ fn.profile = "Aggressive" /\ fn.same_region
    /\ fn.out[1].initial_part_size = S3_MAX_PART_SIZE
    /\ fn.out[1].initial_concurrency = 3
    /\ fn.out[1].max_concurrency = 3

\* C28: from 1 TiB on, for both values of same_region and every concurrency
\* cap, the CostEfficient plan starts from a part size that is not smaller
\* than the Balanced plan's, and so needs no more parts.
C28_CostEfficientLargerParts ==
    (BuildPlanApplied /\ fn.profile = "CostEfficient" /\ fn.size >= TIB) =>
        LET balanced == build_auto_plan("Balanced", fn.size, fn.same_region, fn.cap)
        IN /\ fn.out[1].initial_part_size >= balanced.initial_part_size
           /\ CeilDiv(fn.size, fn.out[1].initial_part_size)
                  <= CeilDiv(fn.size, balanced.initial_part_size)

C28_Witness ==
    /\ BuildPlanApplied /\ fn.profile = "CostEfficient"
    /\ fn.size = TIB /\ ~fn.same_region /\ fn.cap = 16
    /\ fn.out[1].initial_part_size = 3 * GIB
    /\ build_auto_plan("Balanced", fn.size, fn.same_region, fn.cap).initial_part_size
           = 700 * MIB
    /\ CeilDiv(fn.size, fn.out[1].initial_part_size) = 342

\* the heads the verifier can be handed: the source as it was read at entry
\* (its size is content_length), ETags present or missing, quoted or bare
FnSizes == {10, 11}
FnSourceETags == {None, Some(ETagA), Some(<<"a">>), Some(ETagOld)}
FnDestETags == {None, Some(ETagA), Some(<<"a">>), Some(MultipartETag)}
FnRecordedETags == {None, Some(ETagA), Some(<<"a">>), Some(ETagOld)}
FnSums ==
    {NoSums, [NoSums EXCEPT !["sha256"] = "x"], [NoSums EXCEPT !["crc32"] = "y"],
     [NoSums EXCEPT !["sha256"] = "x", !["crc32"] = "y"],
     [NoSums EXCEPT !["sha256"] = "z", !["crc32"] = "y"]}

VerifyInputs ==
    { [op |-> "verify", verify_integrity |-> mode, content_length |-> size,
       source_metadata |-> [Object(size, <<>>, None, NoVal, HeadersA, TagsA)
                                EXCEPT !.e_tag = se, !.sums = ss],
       dest_metadata |-> [Object(dsize, <<>>, re, NoVal, HeadersA, TagsA)
                              EXCEPT !.e_tag = de, !.sums = ds],
       out |-> "pending"] :
        mode \in {"Etag", "Checksum"}, size \in FnSizes, dsize \in FnSizes,
        se \in FnSourceETags, de \in FnDestETags, re \in FnRecordedETags,
        ss \in FnSums, ds \in FnSums }

\* app.rs:1248-1278
ApplyVerify ==
    /\ fn.op = "verify" /\ fn.out = "pending"
    /\ fn' = [fn EXCEPT !.out = <<VerifyOutcome(fn.verify_integrity, fn.content_length,
                                                 fn.source_metadata, fn.dest_metadata)>>]
    /\ UNCHANGED <<planVars, adaptVars, lifeVars>>

VerifyApplied == fn.op = "verify" /\ fn.out # "pending"
VerificationFailed ==
    {"SizeMismatch", "EtagMismatch", "ChecksumMismatch", "ChecksumUnavailable"}

RecordedETagMatches(source_metadata, dest_metadata) ==
    /\ source_metadata.e_tag # None
    /\ dest_metadata.source_etag # None
    /\ StandardizeQuotes(dest_metadata.source_etag[1])
           = StandardizeQuotes(source_metadata.e_tag[1])

\* C20: in Etag mode with equal sizes the verifier succeeds exactly when the
\* destination ETag equals the source ETag or the recorded source-etag equals
\* the source ETag under quote normalization, and returns VerificationFailed
\* otherwise, whichever ETag headers are present or missing.
C20_EtagVerificationIff ==
    (/\ VerifyApplied /\ fn.verify_integrity = "Etag"
     /\ fn.source_metadata.size = fn.dest_metadata.size)
    => /\ fn.out[1] = "ok" <=>
              \/ fn.dest_metadata.e_tag = fn.source_metadata.e_tag
              \/ RecordedETagMatches(fn.source_metadata, fn.dest_metadata)
       /\ fn.out[1] # "ok" => fn.out[1] \in VerificationFailed

\* C21 as stated: in Checksum mode with equal sizes the verifier succeeds
\* exactly when the highest-precedence algorithm present on the source head
\* is exposed by the destination head with an equal value, whatever else the
\* destination carries; every other outcome is VerificationFailed.
C21_ChecksumVerificationIff ==
    (/\ VerifyApplied /\ fn.verify_integrity = "Checksum"
     /\ fn.source_metadata.size = fn.dest_metadata.size)
    => /\ fn.out[1] = "ok" <=>
              /\ PresentSums(fn.source_metadata) # {}
              /\ LET a == Precedence[FirstPresent(fn.source_metadata)]
                 IN fn.dest_metadata.sums[a] = fn.source_metadata.sums[a]
       /\ fn.out[1] # "ok" => fn.out[1] \in VerificationFailed

\* the heads extract_checksum_value is applied to: every subset of the four
\* checksum headers, with equal or different values
FnSumValues == {NoVal, "x", "y"}
ExtractInputs ==
    { [op |-> "extract",
       meta |-> [Object(10, ETagA, None, NoVal, HeadersA, TagsA) EXCEPT !.sums = s],
       out |-> "pending"] : s \in [ChecksumNames -> FnSumValues] }

\* app.rs:571-585
ApplyExtract ==
    /\ fn.op = "extract" /\ fn.out = "pending"
    /\ fn' = [fn EXCEPT !.out = <<extract_checksum_value(fn.meta)>>]
    /\ UNCHANGED <<planVars, adaptVars, lifeVars>>

ExtractApplied == fn.op = "extract" /\ fn.out # "pending"

\* C22: extract_checksum_value returns the checksum of the highest-precedence
\* algorithm present on the head, in the order SHA256 > SHA1 > CRC32C > CRC32,
\* labelled with that algorithm, and returns none exactly when the head
\* carries no checksum header.
C22_ExtractPrefersHighest ==
    ExtractApplied =>
        /\ fn.out[1] = None <=> PresentSums(fn.meta) = {}
        /\ PresentSums(fn.meta) # {} =>
              LET a == Precedence[FirstPresent(fn.meta)]
              IN fn.out[1] = Some(<<PrecedenceLabel[FirstPresent(fn.meta)], fn.meta.sums[a]>>)

C22_Witness ==
    /\ ExtractApplied
    /\ fn.meta.sums["sha256"] = NoVal
    /\ fn.meta.sums["sha1"] = "x"
    /\ fn.meta.sums["crc32c"] = NoVal
    /\ fn.meta.sums["crc32"] = "y"
    /\ fn.out = <<Some(<<"SHA1", "x">>)>>

\* A clone that copies the counters instead of sharing them.
CellOfOwn(handle) == handle

\* progress.rs:8-12: #[derive(Clone)] on Arc fields: every clone of a
\* CopyProgress points at the same two atomic cells
CellOf(handle) == 1

MaxCallers == 3
ProgressHandles == {1, 2}
ProgressBytes == {500, 700}

\* k concurrent callers of add_completed, each through one of the clones
ProgressInputs ==
    { [op |-> "add_completed",
       cells |-> [c \in ProgressHandles |-> [copied_bytes |-> 0, completed_parts |-> 0]],
       callers |-> [i \in 1..k |-> [handle |-> h[i], bytes |-> b[i], at |-> "called"]]] :
        k \in 1..MaxCallers, h \in [1..MaxCallers -> ProgressHandles],
        b \in [1..MaxCallers -> ProgressBytes] }

\* progress.rs:24: self.copied_bytes.fetch_add(bytes, SeqCst), one atomic step
AddCopiedBytes(i) ==
    /\ fn.op = "add_completed" /\ i \in DOMAIN fn.callers
    /\ fn.callers[i].at = "called"
    /\ fn' = [fn EXCEPT !.cells[CellOf(fn.callers[i].handle)].copied_bytes =
                            @ + fn.callers[i].bytes,
                        !.callers[i].at = "bytes_added"]
    /\ UNCHANGED <<planVars, adaptVars, lifeVars>>

\* progress.rs:25: self.completed_parts.fetch_add(1, SeqCst), then return
AddCompletedParts(i) ==
    /\ fn.op = "add_completed" /\ i \in DOMAIN fn.callers
    /\ fn.callers[i].at = "bytes_added"
    /\ fn' = [fn EXCEPT !.cells[CellOf(fn.callers[i].handle)].completed_parts = @ + 1,
                        !.callers[i].at = "returned"]
    /\ UNCHANGED <<planVars, adaptVars, lifeVars>>

RECURSIVE SumCallerBytes(_)
SumCallerBytes(cs) == IF cs = <<>> THEN 0 ELSE Head(cs).bytes + SumCallerBytes(Tail(cs))

AllReturned ==
    fn.op = "add_completed" /\ \A i \in DOMAIN fn.callers : fn.callers[i].at = "returned"

\* C34: whatever the interleaving of k add_completed calls issued through
\* clones of one CopyProgress, once all of them have returned every clone
\* reads copied_bytes = b1 + ... + bk and completed_parts = k.
C34_NoLostUpdate ==
    AllReturned =>
        \A h \in ProgressHandles :
            /\ fn.cells[CellOf(h)].copied_bytes = SumCallerBytes(fn.callers)
            /\ fn.cells[CellOf(h)].completed_parts = Len(fn.callers)

C34_Witness ==
    /\ AllReturned
    /\ Len(fn.callers) = 3
    /\ fn.callers[1].handle = 1 /\ fn.callers[2].handle = 2
    /\ fn.cells[CellOf(2)].copied_bytes = 1900
    /\ fn.cells[CellOf(1)].completed_parts = 3

\* the arguments clamp_part_size_for_limit is applied to: sizes of every
\* magnitude, desired sizes below, at, between and above the two limits, and
\* the part limits the callers pass (10 000, 9 500, the slots left)
FnDesired == {1, 5 * MIB, 5 * MIB + 1, 256 * MIB, 5 * GIB, 5 * GIB + 1, 6 * GIB}
FnMaxParts == {1, 7, TUNE_MAX_PARTS, S3_MAX_PARTS - 5, S3_MAX_PARTS}
ClampInputs ==
    [op : {"clamp_part_size_for_limit"}, size : PlanSizes, desired : FnDesired,
     max_parts : FnMaxParts, out : {"pending"}]

\* auto.rs:125-141
ApplyClamp ==
    /\ fn.op = "clamp_part_size_for_limit" /\ fn.out = "pending"
    /\ fn' = [fn EXCEPT !.out = <<clamp_part_size_for_limit(fn.size, fn.desired,
                                                            fn.max_parts)>>]
    /\ UNCHANGED <<planVars, adaptVars, lifeVars>>

ClampApplied == fn.op = "clamp_part_size_for_limit" /\ fn.out # "pending"

\* C35: for size > 0 the clamp returns min(5 GiB, max(desired, 5 MiB,
\* ceil(size / max_parts) rounded up to a MiB boundary)), and whenever
\* size <= max_parts x 5 GiB the result r gives ceil(size / r) <= max_parts.
C35_ClampFormula ==
    (ClampApplied /\ fn.size > 0) =>
        /\ fn.out[1] =
               Min(5 * GIB,
                   Max(Max(fn.desired, 5 * MIB),
                       CeilDiv(CeilDiv(fn.size, fn.max_parts), MIB) * MIB))
        /\ fn.size <= fn.max_parts * 5 * GIB
              => CeilDiv(fn.size, fn.out[1]) <= fn.max_parts

C35_Witness ==
    /\ ClampApplied
    /\ fn.size = S3_MAX_PARTS * S3_MAX_PART_SIZE - 1
    /\ fn.desired = 5 * MIB + 1 /\ fn.max_parts = S3_MAX_PARTS
    /\ fn.out = <<5 * GIB>>
    /\ CeilDiv(fn.size, fn.out[1]) = S3_MAX_PARTS

\* the LocationConstraint of a GetBucketLocation response: absent, empty,
\* the legacy name and two region names
LocationConstraints == {None, Some(""), Some("EU"), Some("eu-west-1"), Some("us-east-1")}
RegionOverrides == {None, Some("ap-south-1")}
RegionInputs ==
    [op : {"get_bucket_region"}, source : LocationConstraints, dest : LocationConstraints,
     user_override : RegionOverrides, out : {"pending"}]

\* app.rs:232-251: S3CopyApp::get_bucket_region on a successful response
get_bucket_region(location_constraint) ==
    LET region == IF location_constraint = None THEN "us-east-1"
                  ELSE location_constraint[1]
    IN IF region = "" THEN "us-east-1" ELSE region

\* s3_utils.rs:5-21: s3_utils::get_bucket_region on a successful response
s3_utils_get_bucket_region(location_constraint, user_override) ==
    IF user_override # None THEN user_override[1]
    ELSE IF location_constraint # None
    THEN IF location_constraint[1] = "EU" THEN "eu-west-1" ELSE location_constraint[1]
    ELSE "us-east-1"

\* both implementations on the two buckets, and app.rs:1004-1019: the
\* same_region decision of the engine
ApplyRegion ==
    /\ fn.op = "get_bucket_region" /\ fn.out = "pending"
    /\ fn' = [fn EXCEPT !.out =
                 <<[src |-> get_bucket_region(fn.source),
                    dst |-> get_bucket_region(fn.dest),
                    utils_src |-> s3_utils_get_bucket_region(fn.source, fn.user_override),
                    utils_dst |-> s3_utils_get_bucket_region(fn.dest, fn.user_override),
                    same_region |->
                        get_bucket_region(fn.source) = get_bucket_region(fn.dest)]>>]
    /\ UNCHANGED <<planVars, adaptVars, lifeVars>>

RegionApplied == fn.op = "get_bucket_region" /\ fn.out # "pending"

\* the region the claim gives a location constraint
ClaimedRegion(location_constraint) ==
    IF location_constraint = None \/ location_constraint = Some("") THEN "us-east-1"
    ELSE IF location_constraint = Some("EU") THEN "eu-west-1"
    ELSE location_constraint[1]

\* C40: both implementations of get_bucket_region map an empty or absent
\* location constraint to "us-east-1" and the legacy constraint "EU" to
\* "eu-west-1", so a bucket reported as "EU" and one reported as "eu-west-1"
\* are planned as same-region.
C40_RegionMapping ==
    (RegionApplied /\ fn.user_override = None) =>
        /\ fn.out[1].src = ClaimedRegion(fn.source)
        /\ fn.out[1].dst = ClaimedRegion(fn.dest)
        /\ fn.out[1].utils_src = ClaimedRegion(fn.source)
        /\ fn.out[1].utils_dst = ClaimedRegion(fn.dest)
        /\ (fn.source = Some("EU") /\ fn.dest = Some("eu-west-1")) => fn.out[1].same_region

FnInit ==
    /\ fn \in AdaptInputs \cup BuildPlanInputs \cup VerifyInputs \cup ExtractInputs
               \cup ProgressInputs \cup ClampInputs
               \cup RegionInputs
    /\ pl = [pc |-> "idle"]
    /\ ad = [pc |-> "idle"]
    /\ LifeIdle

FnNext ==
    \/ ApplyAdapt
    \/ ApplyBuildPlan
    \/ ApplyVerify
    \/ ApplyExtract
    \/ ApplyClamp
    \/ ApplyRegion
    \/ \E i \in 1..MaxCallers : AddCopiedBytes(i)
    \/ \E i \in 1..MaxCallers : AddCompletedParts(i)

SpecFn == FnInit /\ [][FnNext]_vars

====
